---- MODULE Spec2Model ----
(***************************************************************************)
(* Model of pkg/wikifmt (lintkit): Run = collectFiles, buildIndex,         *)
(* checkFrontmatter per file, checkTags, checkLinks per file, NewLog.      *)
(* Go strings are sequences of one-character strings, so that the string   *)
(* functions and regular expressions of the source are computed, not       *)
(* assumed.                                                                *)
(***************************************************************************)
EXTENDS Integers, Sequences, FiniteSets, TLC

(***************************************************************************)
(* Characters and the Go string functions the package uses.                *)
(***************************************************************************)

\* The characters of the model's inputs, in ascending byte order.
Ascii ==
  << "\t", "\n", " ", "#", "(", ")", "-", ".", "/",
     "0", "1", "2", "3", "4", "5", "6", "7", "8", "9", ":",
     "A", "B", "C", "D", "E", "F", "G", "H", "I", "J", "K", "L", "M",
     "N", "O", "P", "Q", "R", "S", "T", "U", "V", "W", "X", "Y", "Z",
     "[", "]", "_",
     "a", "b", "c", "d", "e", "f", "g", "h", "i", "j", "k", "l", "m",
     "n", "o", "p", "q", "r", "s", "t", "u", "v", "w", "x", "y", "z" >>

Chars == { Ascii[k] : k \in 1..Len(Ascii) }

\* Byte order of a character (its rank in Ascii).
Code == [ c \in Chars |-> CHOOSE k \in 1..Len(Ascii) : Ascii[k] = c ]

Digits == { "0", "1", "2", "3", "4", "5", "6", "7", "8", "9" }

UpperSeq == << "A", "B", "C", "D", "E", "F", "G", "H", "I", "J", "K", "L", "M",
               "N", "O", "P", "Q", "R", "S", "T", "U", "V", "W", "X", "Y", "Z" >>
LowerSeq == << "a", "b", "c", "d", "e", "f", "g", "h", "i", "j", "k", "l", "m",
               "n", "o", "p", "q", "r", "s", "t", "u", "v", "w", "x", "y", "z" >>

LowerChar ==
  [ c \in Chars |->
      IF \E k \in 1..Len(UpperSeq) : UpperSeq[k] = c
      THEN LowerSeq[CHOOSE k \in 1..Len(UpperSeq) : UpperSeq[k] = c]
      ELSE c ]

\* strings.ToLower
ToLower(s) == [ k \in 1..Len(s) |-> LowerChar[s[k]] ]

\* unicode.IsSpace, on the model's characters
IsSpace(c) == c \in { " ", "\t", "\n" }

\* s[a..b], empty when a > b
Sub(s, a, b) == IF a > b THEN << >> ELSE SubSeq(s, a, b)

\* strings.HasPrefix, strings.HasSuffix, strings.TrimPrefix, strings.TrimSuffix
HasPrefix(s, p) == Len(s) >= Len(p) /\ Sub(s, 1, Len(p)) = p
HasSuffix(s, p) == Len(s) >= Len(p) /\ Sub(s, Len(s) - Len(p) + 1, Len(s)) = p
TrimPrefix(s, p) == IF HasPrefix(s, p) THEN Sub(s, Len(p) + 1, Len(s)) ELSE s
TrimSuffix(s, p) == IF HasSuffix(s, p) THEN Sub(s, 1, Len(s) - Len(p)) ELSE s

\* strings.TrimSpace
TrimSpace(s) ==
  LET first == { k \in 1..Len(s) : ~IsSpace(s[k]) }
  IN  IF first = {} THEN << >>
      ELSE LET a == CHOOSE k \in first : \A m \in first : k <= m
               b == CHOOSE k \in first : \A m \in first : k >= m
           IN  Sub(s, a, b)

\* Positions of character c in s
IndexesOf(s, c) == { k \in 1..Len(s) : s[k] = c }

Min(S) == CHOOSE k \in S : \A m \in S : k <= m
Max(S) == CHOOSE k \in S : \A m \in S : k >= m

\* strings.Split(s, sep) for a one-character separator
RECURSIVE Split(_, _)
Split(s, sep) ==
  LET at == IndexesOf(s, sep)
  IN  IF at = {} THEN << s >>
      ELSE LET k == Min(at)
           IN  << Sub(s, 1, k - 1) >> \o Split(Sub(s, k + 1, Len(s)), sep)

\* strings.SplitN(s, sep, 2) for a one-character separator
SplitN2(s, sep) ==
  LET at == IndexesOf(s, sep)
  IN  IF at = {} THEN << s >>
      ELSE LET k == Min(at)
           IN  << Sub(s, 1, k - 1), Sub(s, k + 1, Len(s)) >>

\* strings.Join of a sequence of strings with a one-character separator
RECURSIVE JoinWith(_, _)
JoinWith(ss, sep) ==
  IF ss = << >> THEN << >>
  ELSE IF Len(ss) = 1 THEN ss[1]
  ELSE ss[1] \o << sep >> \o JoinWith(Tail(ss), sep)

\* Byte-wise string comparison a < b, as Go compares strings
RECURSIVE StrLess(_, _)
StrLess(a, b) ==
  IF b = << >> THEN FALSE
  ELSE IF a = << >> THEN TRUE
  ELSE IF a[1] = b[1] THEN StrLess(Tail(a), Tail(b))
  ELSE Code[a[1]] < Code[b[1]]

(***************************************************************************)
(* path/filepath on slash-separated paths.                                 *)
(***************************************************************************)

Slash == "/"
Dot == << "." >>
DotDot == << ".", "." >>

\* The element stack of filepath.Clean: "" and "." elements dropped, ".."
\* removes the element before it (dropped at the root, kept at the start
\* of a relative path).
RECURSIVE CleanStack(_, _, _)
CleanStack(elems, stack, rooted) ==
  IF elems = << >> THEN stack
  ELSE LET e == Head(elems)
           rest == Tail(elems)
       IN  IF e = << >> \/ e = Dot THEN CleanStack(rest, stack, rooted)
           ELSE IF e = DotDot
           THEN IF stack # << >> /\ stack[Len(stack)] # DotDot
                THEN CleanStack(rest, Sub(stack, 1, Len(stack) - 1), rooted)
                ELSE IF rooted THEN CleanStack(rest, stack, rooted)
                ELSE CleanStack(rest, Append(stack, e), rooted)
           ELSE CleanStack(rest, Append(stack, e), rooted)

\* filepath.Clean
Clean(path) ==
  LET rooted == HasPrefix(path, << Slash >>)
      body == JoinWith(CleanStack(Split(path, Slash), << >>, rooted), Slash)
      out == IF rooted THEN << Slash >> \o body ELSE body
  IN  IF out = << >> THEN Dot ELSE out

\* path with its trailing slashes removed
RECURSIVE StripSlashes(_)
StripSlashes(path) ==
  IF path # << >> /\ path[Len(path)] = Slash
  THEN StripSlashes(Sub(path, 1, Len(path) - 1))
  ELSE path

\* filepath.Base
Base(path) ==
  IF path = << >> THEN Dot
  ELSE LET p == StripSlashes(path)
           at == IndexesOf(p, Slash)
           last == IF at = {} THEN p ELSE Sub(p, Max(at) + 1, Len(p))
       IN  IF last = << >> THEN << Slash >> ELSE last

\* filepath.Ext: from the last dot of the last element
Ext(path) ==
  LET slashes == IndexesOf(path, Slash)
      from == IF slashes = {} THEN 1 ELSE Max(slashes) + 1
      dots == { k \in IndexesOf(path, ".") : k >= from }
  IN  IF dots = {} THEN << >> ELSE Sub(path, Max(dots), Len(path))

\* filepath.Dir
Dir(path) ==
  LET at == IndexesOf(path, Slash)
  IN  Clean(IF at = {} THEN << >> ELSE Sub(path, 1, Max(at)))

\* filepath.Join(a, b)
Join(a, b) ==
  IF a # << >> THEN Clean(a \o << Slash >> \o b)
  ELSE IF b # << >> THEN Clean(b)
  ELSE << >>

\* strings.TrimSuffix(filepath.Base(p), filepath.Ext(p)): the filename stem
Stem(path) == TrimSuffix(Base(path), Ext(path))

(***************************************************************************)
(* The package's regular expressions.                                      *)
(***************************************************************************)

Dashes3 == << "-", "-", "-" >>

\* frontmatterPattern (?s)^---\n(.*?)\n---\n? : the text must start with
\* "---\n"; the lazy group ends at the first "\n---" that follows.  The
\* result is FindStringSubmatch's group 1, or no match.
frontmatterPattern(content) ==
  LET closers == { k \in 5..(Len(content) - 3) :
                     Sub(content, k, k + 3) = << "\n" >> \o Dashes3 }
  IN  IF HasPrefix(content, Dashes3 \o << "\n" >>) /\ closers # {}
      THEN [ok |-> TRUE, raw |-> Sub(content, 5, Min(closers) - 1)]
      ELSE [ok |-> FALSE, raw |-> << >>]

\* datePattern ^\d{4}-\d{2}-\d{2}$
datePattern(s) ==
  /\ Len(s) = 10
  /\ \A k \in { 1, 2, 3, 4, 6, 7, 9, 10 } : s[k] \in Digits
  /\ s[5] = "-"
  /\ s[8] = "-"

\* One match of wikilinkPattern \[\[([^\]]+)\]\] starting at position k of
\* line: the end of the match, or 0.
WikiMatchAt(line, k) ==
  IF k + 1 <= Len(line) /\ line[k] = "[" /\ line[k + 1] = "["
  THEN LET close == { j \in (k + 2)..Len(line) : line[j] = "]" }
       IN  IF close # {} /\ Min(close) > k + 2 /\ Min(close) + 1 <= Len(line)
              /\ line[Min(close) + 1] = "]"
           THEN Min(close) + 1
           ELSE 0
  ELSE 0

\* wikilinkPattern.FindAllStringSubmatch(line, -1): the group-1 texts of the
\* leftmost non-overlapping matches from position k on.
RECURSIVE WikiFindAll(_, _)
WikiFindAll(line, k) ==
  IF k > Len(line) THEN << >>
  ELSE LET e == WikiMatchAt(line, k)
       IN  IF e = 0 THEN WikiFindAll(line, k + 1)
           ELSE << Sub(line, k + 2, e - 2) >> \o WikiFindAll(line, e + 1)

\* One match of mdlinkPattern \[[^\]]*\]\(([^)]+)\) starting at position k:
\* [start of the target, end of the match], or << >>.
MdMatchAt(line, k) ==
  IF k <= Len(line) /\ line[k] = "["
  THEN LET close == { j \in (k + 1)..Len(line) : line[j] = "]" }
       IN  IF close # {} /\ Min(close) + 1 <= Len(line)
              /\ line[Min(close) + 1] = "("
           THEN LET open == Min(close) + 1
                    paren == { j \in (open + 1)..Len(line) : line[j] = ")" }
                IN  IF paren # {} /\ Min(paren) > open + 1
                    THEN << open + 1, Min(paren) >>
                    ELSE << >>
           ELSE << >>
  ELSE << >>

\* mdlinkPattern.FindAllStringSubmatch(line, -1)
RECURSIVE MdFindAll(_, _)
MdFindAll(line, k) ==
  IF k > Len(line) THEN << >>
  ELSE LET m == MdMatchAt(line, k)
       IN  IF m = << >> THEN MdFindAll(line, k + 1)
           ELSE << Sub(line, m[1], m[2] - 1) >> \o MdFindAll(line, m[2] + 1)

\* regexp -+ ReplaceAllString(s, "-"): runs of dashes collapsed to one
RECURSIVE CollapseDashes(_)
CollapseDashes(s) ==
  IF s = << >> THEN << >>
  ELSE IF Len(s) >= 2 /\ s[1] = "-" /\ s[2] = "-" THEN CollapseDashes(Tail(s))
  ELSE << s[1] >> \o CollapseDashes(Tail(s))

\* slugify
slugify(s) ==
  LET t == TrimSpace(ToLower(s))
      r == [ k \in 1..Len(t) |-> IF t[k] \in { " ", "_" } THEN "-" ELSE t[k] ]
  IN  CollapseDashes(r)

(***************************************************************************)
(* Parsing one file: parseFrontmatter, parseLinks, parseFile.              *)
(***************************************************************************)

\* Go errors: nil, the sentinel errMissingFrontmatter, and the fmt.Errorf
\* values of parseFrontmatter (their text is the kind and the numbers).
NoKey == << >>
nil == [kind |-> "nil", line |-> 0, key |-> NoKey, prev |-> 0]
errMissingFrontmatter ==
  [kind |-> "missing frontmatter", line |-> 0, key |-> NoKey, prev |-> 0]
Errorf(kind, line, key, prev) ==
  [kind |-> kind, line |-> line, key |-> key, prev |-> prev]

\* valueNode[T]{} and frontmatter{}
ZeroNode == [Value |-> << >>, Line |-> 0, IsSet |-> FALSE]
ZeroFrontmatter == [Title |-> ZeroNode, Date |-> ZeroNode, Tags |-> ZeroNode]

ListPrefix == << " ", " ", "-", " " >>
KeyTitle == << "t", "i", "t", "l", "e" >>
KeyDate == << "d", "a", "t", "e" >>
KeyTags == << "t", "a", "g", "s" >>

\* SetKey, were a value on the tags: line itself not recorded as a tag
SetKeyListOnly(fm, key, value, lineNo) ==
  IF key = KeyTitle
  THEN IF value # << >>
       THEN [fm EXCEPT !.Title = [Value |-> value, Line |-> lineNo, IsSet |-> TRUE]]
       ELSE fm
  ELSE IF key = KeyDate
  THEN IF value # << >>
       THEN [fm EXCEPT !.Date = [Value |-> value, Line |-> lineNo, IsSet |-> TRUE]]
       ELSE fm
  ELSE IF key = KeyTags
  THEN [fm EXCEPT !.Tags.Line = lineNo]
  ELSE fm

\* SetKey, were a key with an empty value recorded as well
SetKeyEmptyToo(fm, key, value, lineNo) ==
  IF key = KeyTitle
  THEN [fm EXCEPT !.Title = [Value |-> value, Line |-> lineNo, IsSet |-> TRUE]]
  ELSE IF key = KeyDate
  THEN [fm EXCEPT !.Date = [Value |-> value, Line |-> lineNo, IsSet |-> TRUE]]
  ELSE IF key = KeyTags
  THEN [fm EXCEPT !.Tags = [Value |-> IF value # << >>
                                      THEN Append(fm.Tags.Value, value)
                                      ELSE fm.Tags.Value,
                            Line |-> lineNo, IsSet |-> TRUE]]
  ELSE fm

\* The switch on key at the end of the loop body of parseFrontmatter
SetKey(fm, key, value, lineNo) ==
  IF key = KeyTitle
  THEN IF value # << >>
       THEN [fm EXCEPT !.Title = [Value |-> value, Line |-> lineNo, IsSet |-> TRUE]]
       ELSE fm
  ELSE IF key = KeyDate
  THEN IF value # << >>
       THEN [fm EXCEPT !.Date = [Value |-> value, Line |-> lineNo, IsSet |-> TRUE]]
       ELSE fm
  ELSE IF key = KeyTags
  THEN IF value # << >>
       THEN [fm EXCEPT !.Tags = [Value |-> Append(fm.Tags.Value, value),
                                 Line |-> lineNo, IsSet |-> TRUE]]
       ELSE [fm EXCEPT !.Tags.Line = lineNo]
  ELSE fm

\* The loop of parseFrontmatter from block line i on: fm so far, seenKeys
\* (key -> line) and currentKey.  Returns the (frontmatter, error) pair.
\* lineNo, were it the position of the line within the block
LineNoInBlock(i) == i

\* lineNo := i + 2 for Go's 0-based i, which is i + 1 for the 1-based i here
LineNo(i) == i + 1

\* A list item, were it accepted after any key
ListItemAfterAnyKey(currentKey) == currentKey # NoKey

\* The list item is under the key tags (the negation of currentKey != "tags")
ListItemUnderTags(currentKey) == currentKey = KeyTags

RECURSIVE ParseLoop(_, _, _, _, _)
ParseLoop(lines, i, fm, seenKeys, currentKey) ==
  IF i > Len(lines) THEN [fm |-> fm, err |-> nil]
  ELSE
    LET line == lines[i]
        lineNo == LineNo(i)
        trimmed == TrimSpace(line)
    IN  IF trimmed = << >>
        THEN ParseLoop(lines, i + 1, fm, seenKeys, currentKey)
        ELSE IF HasPrefix(trimmed, << "-" >>) /\ ~HasPrefix(line, ListPrefix)
        THEN [fm |-> fm,
              err |-> Errorf("invalid YAML list entry without key", lineNo, NoKey, 0)]
        ELSE IF HasPrefix(line, ListPrefix)
        THEN IF ~ListItemUnderTags(currentKey)
             THEN [fm |-> fm, err |-> Errorf("unexpected list item", lineNo, NoKey, 0)]
             ELSE LET tag == TrimSpace(TrimPrefix(line, ListPrefix))
                  IN  ParseLoop(lines, i + 1,
                                [fm EXCEPT !.Tags = [Value |-> Append(fm.Tags.Value, tag),
                                                     Line |-> lineNo, IsSet |-> TRUE]],
                                seenKeys, currentKey)
        ELSE LET parts == SplitN2(line, ":")
             IN  IF Len(parts) # 2
                 THEN [fm |-> fm,
                       err |-> Errorf("invalid frontmatter line", lineNo, NoKey, 0)]
                 ELSE LET key == TrimSpace(parts[1])
                          value == TrimSpace(parts[2])
                      IN  IF key \in DOMAIN seenKeys
                          THEN [fm |-> fm,
                                err |-> Errorf("duplicate key", lineNo, key, seenKeys[key])]
                          ELSE ParseLoop(lines, i + 1, SetKey(fm, key, value, lineNo),
                                         (key :> lineNo) @@ seenKeys, key)

\* parseFrontmatter
parseFrontmatter(content) ==
  LET match == frontmatterPattern(content)
  IN  IF ~match.ok THEN [fm |-> ZeroFrontmatter, err |-> errMissingFrontmatter]
      ELSE ParseLoop(Split(match.raw, "\n"), 1, ZeroFrontmatter, << >>, NoKey)

\* []link of one line: the wikilinks, then the markdown links
LinksOfLine(line, lineNo) ==
  LET w == WikiFindAll(line, 1)
      m == MdFindAll(line, 1)
  IN  [ k \in 1..Len(w) |-> [Target |-> w[k], Kind |-> "wikilink", Line |-> lineNo] ]
      \o [ k \in 1..Len(m) |-> [Target |-> m[k], Kind |-> "markdown", Line |-> lineNo] ]

\* parseLinks: lines from index i on (1-based, so lineNo = i)
RECURSIVE parseLinksFrom(_, _)
parseLinksFrom(lines, i) ==
  IF i > Len(lines) THEN << >>
  ELSE LinksOfLine(lines[i], i) \o parseLinksFrom(lines, i + 1)

parseLinks(lines) == parseLinksFrom(lines, 1)

\* parseFile, were the tags of a document kept only when its frontmatter
\* parsed without error
parseFileTagsWhenParsed(path, content) ==
  LET lines == Split(content, "\n")
      parsed == parseFrontmatter(content)
      fm == parsed.fm
      tags == IF fm.Tags.IsSet /\ parsed.err = nil
              THEN [ k \in 1..Len(fm.Tags.Value) |->
                       [Value |-> fm.Tags.Value[k], Line |-> fm.Tags.Line] ]
              ELSE << >>
  IN  [Path |-> path, Content |-> content, Lines |-> lines,
       Frontmatter |-> fm, FrontmatterErr |-> parsed.err,
       Links |-> parseLinks(lines), Tags |-> tags]

\* parseFile, for a readable file
parseFile(path, content) ==
  LET lines == Split(content, "\n")
      parsed == parseFrontmatter(content)
      fm == parsed.fm
      tags == IF fm.Tags.IsSet
              THEN [ k \in 1..Len(fm.Tags.Value) |->
                       [Value |-> fm.Tags.Value[k], Line |-> fm.Tags.Line] ]
              ELSE << >>
  IN  [Path |-> path, Content |-> content, Lines |-> lines,
       Frontmatter |-> fm, FrontmatterErr |-> parsed.err,
       Links |-> parseLinks(lines), Tags |-> tags]

(***************************************************************************)
(* Findings: newResult, levelForRule.                                      *)
(***************************************************************************)

\* levelForRule, were the tag rules left to the default
levelForRuleErrorsOnly(rule) ==
  IF rule \in { "wiki-frontmatter-yaml", "wiki-frontmatter-required",
                "wiki-date-format", "wiki-link-broken" }
  THEN "error"
  ELSE "note"

levelForRule(rule) ==
  IF rule \in { "wiki-frontmatter-yaml", "wiki-frontmatter-required",
                "wiki-date-format", "wiki-link-broken" }
  THEN "error"
  ELSE IF rule \in { "wiki-tag-case-variant", "wiki-tag-orphan" }
  THEN "warning"
  ELSE "note"

\* A message text: the format string (or literal) and what is formatted
\* into it (up to two strings, or an error).
Msg(format, a, b, e) == [format |-> format, a |-> a, b |-> b, e |-> e]

\* newResult: one location; the region (StartLine) only when line > 0,
\* StartLine 0 standing for no region.
newResult(ruleID, msg, path, line) ==
  [RuleID |-> ruleID, Level |-> levelForRule(ruleID), Message |-> msg,
   URI |-> path, StartLine |-> IF line > 0 THEN line ELSE 0]

(***************************************************************************)
(* checkFrontmatter                                                        *)
(***************************************************************************)

\* "missing required frontmatter key: " + name
RequiredKey(name) ==
  Msg("missing required frontmatter key: " \o name, << >>, << >>, nil)

\* checkFrontmatter, were the required-key and date checks run after every
\* parse error
checkFrontmatterNoReturn(f) ==
  LET yaml == IF f.FrontmatterErr # nil
              THEN << newResult("wiki-frontmatter-yaml",
                                Msg("invalid frontmatter YAML: %s", << >>, << >>,
                                    f.FrontmatterErr),
                                f.Path, 1) >>
              ELSE << >>
      title == IF ~f.Frontmatter.Title.IsSet
               THEN << newResult("wiki-frontmatter-required", RequiredKey("title"),
                                 f.Path, 1) >>
               ELSE << >>
      date == IF ~f.Frontmatter.Date.IsSet
              THEN << newResult("wiki-frontmatter-required", RequiredKey("date"),
                                f.Path, 1) >>
              ELSE IF ~datePattern(f.Frontmatter.Date.Value)
              THEN << newResult("wiki-date-format",
                                Msg("date must be YYYY-MM-DD, got %q",
                                    f.Frontmatter.Date.Value, << >>, nil),
                                f.Path, f.Frontmatter.Date.Line) >>
              ELSE << >>
      tags == IF ~f.Frontmatter.Tags.IsSet
              THEN << newResult("wiki-frontmatter-required", RequiredKey("tags"),
                                f.Path, 1) >>
              ELSE << >>
  IN  yaml \o title \o date \o tags

checkFrontmatter(f) ==
  LET yaml == IF f.FrontmatterErr # nil
              THEN << newResult("wiki-frontmatter-yaml",
                                Msg("invalid frontmatter YAML: %s", << >>, << >>,
                                    f.FrontmatterErr),
                                f.Path, 1) >>
              ELSE << >>
      title == IF ~f.Frontmatter.Title.IsSet
               THEN << newResult("wiki-frontmatter-required", RequiredKey("title"),
                                 f.Path, 1) >>
               ELSE << >>
      date == IF ~f.Frontmatter.Date.IsSet
              THEN << newResult("wiki-frontmatter-required", RequiredKey("date"),
                                f.Path, 1) >>
              ELSE IF ~datePattern(f.Frontmatter.Date.Value)
              THEN << newResult("wiki-date-format",
                                Msg("date must be YYYY-MM-DD, got %q",
                                    f.Frontmatter.Date.Value, << >>, nil),
                                f.Path, f.Frontmatter.Date.Line) >>
              ELSE << >>
      tags == IF ~f.Frontmatter.Tags.IsSet
              THEN << newResult("wiki-frontmatter-required", RequiredKey("tags"),
                                f.Path, 1) >>
              ELSE << >>
  IN  IF f.FrontmatterErr # nil /\ f.FrontmatterErr # errMissingFrontmatter
      THEN yaml
      ELSE yaml \o title \o date \o tags

(***************************************************************************)
(* The index and link resolution.                                          *)
(***************************************************************************)

\* buildIndexFrom, were a key kept for the first file that has it
RECURSIVE buildIndexKeepFirst(_, _, _)
buildIndexKeepFirst(fls, k, index) ==
  IF k > Len(fls) THEN index
  ELSE LET base == Stem(fls[k].Path)
           withLower == index @@ (ToLower(base) :> fls[k].Path)
       IN  buildIndexKeepFirst(fls, k + 1, withLower @@ (slugify(base) :> fls[k].Path))

\* buildIndexFrom, were the index keyed by the lower-cased paths
RECURSIVE buildIndexByPath(_, _, _)
buildIndexByPath(fls, k, index) ==
  IF k > Len(fls) THEN index
  ELSE buildIndexByPath(fls, k + 1, (ToLower(fls[k].Path) :> fls[k].Path) @@ index)

\* buildIndex: files in order, a later file overwriting an earlier one's key
RECURSIVE buildIndexFrom(_, _, _)
buildIndexFrom(fls, k, index) ==
  IF k > Len(fls) THEN index
  ELSE LET base == Stem(fls[k].Path)
           withLower == (ToLower(base) :> fls[k].Path) @@ index
       IN  buildIndexFrom(fls, k + 1, (slugify(base) :> fls[k].Path) @@ withLower)

buildIndex(fls) == buildIndexFrom(fls, 1, << >>)

\* resolveWikiLink, were the slug lookup left out
resolveWikiLinkLowerOnly(target, index) ==
  LET t == TrimSpace(target)
  IN  IF t = << >> THEN FALSE
      ELSE ToLower(t) \in DOMAIN index

resolveWikiLink(target, index) ==
  LET t == TrimSpace(target)
  IN  IF t = << >> THEN FALSE
      ELSE IF slugify(t) \in DOMAIN index THEN TRUE
      ELSE ToLower(t) \in DOMAIN index

\* The process's working directory, which filepath.Abs joins to a relative path
Cwd == << "/", "r" >>

\* filepath.Abs
Abs(path) == IF HasPrefix(path, << Slash >>) THEN Clean(path) ELSE Join(Cwd, path)

sameFile(a, b) == Abs(a) = Abs(b)

MdSuffix == << ".", "m", "d" >>

\* resolveMarkdownLink, were a link resolved by its location alone
resolveMarkdownLinkByLocation(currentPath, target, index) ==
  IF target = << >> THEN FALSE
  ELSE LET cleaned == TrimPrefix(target, << Slash >>)
           dir == Dir(currentPath)
           abs == Clean(Join(dir, cleaned))
       IN  \E k \in DOMAIN index : sameFile(abs, index[k])

resolveMarkdownLink(currentPath, target, index) ==
  IF target = << >> THEN FALSE
  ELSE LET cleaned == TrimPrefix(target, << Slash >>)
           dir == Dir(currentPath)
           abs == Clean(Join(dir, cleaned))
           key == ToLower(TrimSuffix(Base(abs), Ext(abs)))
           slug == slugify(TrimSuffix(Base(abs), Ext(abs)))
       IN  IF key \in DOMAIN index THEN TRUE
           ELSE IF slug \in DOMAIN index THEN TRUE
           ELSE /\ HasSuffix(abs, MdSuffix)
                /\ \E k \in DOMAIN index : sameFile(abs, index[k])

\* The finding of one link of file f, or none
checkLink(f, l, index) ==
  IF l.Kind = "wikilink"
  THEN IF ~resolveWikiLink(l.Target, index)
       THEN << newResult("wiki-link-broken",
                         Msg("broken wikilink [[%s]]", l.Target, << >>, nil),
                         f.Path, l.Line) >>
       ELSE << >>
  ELSE IF ~resolveMarkdownLink(f.Path, l.Target, index)
       THEN << newResult("wiki-link-broken",
                         Msg("broken markdown link %s", l.Target, << >>, nil),
                         f.Path, l.Line) >>
       ELSE << >>

RECURSIVE checkLinksFrom(_, _, _)
checkLinksFrom(f, k, index) ==
  IF k > Len(f.Links) THEN << >>
  ELSE checkLink(f, f.Links[k], index) \o checkLinksFrom(f, k + 1, index)

checkLinks(f, index) == checkLinksFrom(f, 1, index)

(***************************************************************************)
(* checkTags                                                               *)
(***************************************************************************)

\* The occurrences of all files, in file order then tag order
RECURSIVE Occurrences(_, _)
Occurrences(fls, k) ==
  IF k > Len(fls) THEN << >>
  ELSE [ t \in 1..Len(fls[k].Tags) |->
           [file |-> fls[k].Path, line |-> fls[k].Tags[t].Line,
            raw |-> fls[k].Tags[t].Value] ]
       \o Occurrences(fls, k + 1)

\* The occurrences whose lower-cased tag is norm, order kept
RECURSIVE SelectOcc(_, _)
SelectOcc(occs, norm) ==
  IF occs = << >> THEN << >>
  ELSE IF ToLower(occs[1].raw) = norm
       THEN << occs[1] >> \o SelectOcc(Tail(occs), norm)
       ELSE SelectOcc(Tail(occs), norm)

\* tagOccurrences[norm] and casing[norm] after the first loop of checkTags
tagOccurrences(fls, norm) == SelectOcc(Occurrences(fls, 1), norm)
casing(fls, norm) ==
  LET occs == tagOccurrences(fls, norm)
  IN  { occs[k].raw : k \in 1..Len(occs) }

\* The keys of tagOccurrences
TagKeys(fls) ==
  LET occs == Occurrences(fls, 1)
  IN  { ToLower(occs[k].raw) : k \in 1..Len(occs) }

\* checkTagGroup, were a tag an orphan when it has one casing
checkTagGroupOrphanByCasing(fls, norm) ==
  LET occs == tagOccurrences(fls, norm)
      orphan == IF Cardinality(casing(fls, norm)) = 1
                THEN << newResult("wiki-tag-orphan",
                                  Msg("tag %q is only used once", occs[1].raw, << >>, nil),
                                  occs[1].file, occs[1].line) >>
                ELSE << >>
      variants == IF Cardinality(casing(fls, norm)) > 1
                  THEN [ k \in 1..Len(occs) |->
                           newResult("wiki-tag-case-variant",
                                     Msg("tag %q has case variants; prefer consistent casing for %q",
                                         occs[k].raw, norm, nil),
                                     occs[k].file, occs[k].line) ]
                  ELSE << >>
  IN  orphan \o variants

\* checkTagGroup, were only the occurrences that differ from the lower-cased
\* form reported as case variants
checkTagGroupDeviantsOnly(fls, norm) ==
  LET occs == tagOccurrences(fls, norm)
      orphan == IF Len(occs) = 1
                THEN << newResult("wiki-tag-orphan",
                                  Msg("tag %q is only used once", occs[1].raw, << >>, nil),
                                  occs[1].file, occs[1].line) >>
                ELSE << >>
      deviants == SelectSeq(occs, LAMBDA o : o.raw # norm)
      variants == IF Cardinality(casing(fls, norm)) > 1
                  THEN [ k \in 1..Len(deviants) |->
                           newResult("wiki-tag-case-variant",
                                     Msg("tag %q has case variants; prefer consistent casing for %q",
                                         deviants[k].raw, norm, nil),
                                     deviants[k].file, deviants[k].line) ]
                  ELSE << >>
  IN  orphan \o variants

\* checkTagGroup, were an occurrence a case variant when it differs from the
\* lower-cased form
checkTagGroupVariantOfLower(fls, norm) ==
  LET occs == tagOccurrences(fls, norm)
      orphan == IF Len(occs) = 1
                THEN << newResult("wiki-tag-orphan",
                                  Msg("tag %q is only used once", occs[1].raw, << >>, nil),
                                  occs[1].file, occs[1].line) >>
                ELSE << >>
      deviants == SelectSeq(occs, LAMBDA o : o.raw # norm)
      variants == [ k \in 1..Len(deviants) |->
                      newResult("wiki-tag-case-variant",
                                Msg("tag %q has case variants; prefer consistent casing for %q",
                                    deviants[k].raw, norm, nil),
                                deviants[k].file, deviants[k].line) ]
  IN  orphan \o variants

\* The body of the second loop of checkTags for one key
checkTagGroup(fls, norm) ==
  LET occs == tagOccurrences(fls, norm)
      orphan == IF Len(occs) = 1
                THEN << newResult("wiki-tag-orphan",
                                  Msg("tag %q is only used once", occs[1].raw, << >>, nil),
                                  occs[1].file, occs[1].line) >>
                ELSE << >>
      variants == IF Cardinality(casing(fls, norm)) > 1
                  THEN [ k \in 1..Len(occs) |->
                           newResult("wiki-tag-case-variant",
                                     Msg("tag %q has case variants; prefer consistent casing for %q",
                                         occs[k].raw, norm, nil),
                                     occs[k].file, occs[k].line) ]
                  ELSE << >>
  IN  orphan \o variants

\* checkTags, the map being ranged over in the order keys (Go leaves the
\* iteration order of a map unspecified)
RECURSIVE checkTags(_, _)
checkTags(fls, keys) ==
  IF keys = << >> THEN << >>
  ELSE checkTagGroup(fls, keys[1]) \o checkTags(fls, Tail(keys))

\* The orders in which a range over a map with key set S can run
Orders(S) ==
  { o \in [1..Cardinality(S) -> S] : \A a, b \in 1..Cardinality(S) : a # b => o[a] # o[b] }

(***************************************************************************)
(* The inputs: text lines, frontmatter blocks, bodies, paths.              *)
(***************************************************************************)

\* the line "---"
LnDelim ==
  << "-", "-", "-" >>

\* the line "title: T"
LnTitle ==
  << "t", "i", "t", "l", "e", ":", " ", "T" >>

\* the line "title:"
LnTitleEmpty ==
  << "t", "i", "t", "l", "e", ":" >>

\* the line "date: 2024-01-02"
LnDate ==
  << "d", "a", "t", "e", ":", " ", "2", "0", "2", "4", "-", "0", "1", "-",
     "0", "2" >>

\* the line "date: 2024-13-45"
LnDateImpossible ==
  << "d", "a", "t", "e", ":", " ", "2", "0", "2", "4", "-", "1", "3", "-",
     "4", "5" >>

\* the line "date: 2024-1-2"
LnDateLayout ==
  << "d", "a", "t", "e", ":", " ", "2", "0", "2", "4", "-", "1", "-", "2" >>

\* the line "tags:"
LnTagsKey ==
  << "t", "a", "g", "s", ":" >>

\* the line "tags: api"
LnTagsApi ==
  << "t", "a", "g", "s", ":", " ", "a", "p", "i" >>

\* the line "tags: API"
LnTagsAPI ==
  << "t", "a", "g", "s", ":", " ", "A", "P", "I" >>

\* the line "tags: infra"
LnTagsInfra ==
  << "t", "a", "g", "s", ":", " ", "i", "n", "f", "r", "a" >>

\* the line "  - api"
LnItemApi ==
  << " ", " ", "-", " ", "a", "p", "i" >>

\* the line "  - API"
LnItemAPI ==
  << " ", " ", "-", " ", "A", "P", "I" >>

\* the line "  - infra"
LnItemInfra ==
  << " ", " ", "-", " ", "i", "n", "f", "r", "a" >>

\* the line "- x"
LnBareItem ==
  << "-", " ", "x" >>

\* the line "junk"
LnJunk ==
  << "j", "u", "n", "k" >>

\* the line "author: Z"
LnAuthor ==
  << "a", "u", "t", "h", "o", "r", ":", " ", "Z" >>

\* the line "----"
LnLongDelim ==
  << "-", "-", "-", "-" >>

\* the line "--- x"
LnDelimText ==
  << "-", "-", "-", " ", "x" >>

\* the line ""
LnBlank ==
  << >>

\* the line "text"
LnText ==
  << "t", "e", "x", "t" >>

\* the line "see [[Some Page]]"
LnWikiSomePage ==
  << "s", "e", "e", " ", "[", "[", "S", "o", "m", "e", " ", "P", "a", "g",
     "e", "]", "]" >>

\* the line "[[some_page]] [[ Guide ]]"
LnWikiUnderscore ==
  << "[", "[", "s", "o", "m", "e", "_", "p", "a", "g", "e", "]", "]", " ",
     "[", "[", " ", "G", "u", "i", "d", "e", " ", "]", "]" >>

\* the line "[[ ]] and [[nope]]"
LnWikiEmptyNope ==
  << "[", "[", " ", "]", "]", " ", "a", "n", "d", " ", "[", "[", "n", "o",
     "p", "e", "]", "]" >>

\* the line "[x](../docs/guide.md)"
LnMdGuide ==
  << "[", "x", "]", "(", ".", ".", "/", "d", "o", "c", "s", "/", "g", "u",
     "i", "d", "e", ".", "m", "d", ")" >>

\* the line "[y](https://e.com)"
LnMdUrl ==
  << "[", "y", "]", "(", "h", "t", "t", "p", "s", ":", "/", "/", "e", ".",
     "c", "o", "m", ")" >>

\* the line "[z](#top)"
LnMdAnchor ==
  << "[", "z", "]", "(", "#", "t", "o", "p", ")" >>

\* the line "[n](nope.md)"
LnMdNope ==
  << "[", "n", "]", "(", "n", "o", "p", "e", ".", "m", "d", ")" >>


\* A file's text: its lines, each ended by a newline
RECURSIVE Text(_)
Text(lines) ==
  IF lines = << >> THEN << >>
  ELSE lines[1] \o << "\n" >> \o Text(Tail(lines))

\* the path "w"
RootW ==
  << "w" >>

\* the path "w/a.md"
PathA ==
  << "w", "/", "a", ".", "m", "d" >>

\* the path "w/b.md"
PathB ==
  << "w", "/", "b", ".", "m", "d" >>

\* the path "w/c.md"
PathC ==
  << "w", "/", "c", ".", "m", "d" >>

\* the path "w/n/a.md"
PathLinker ==
  << "w", "/", "n", "/", "a", ".", "m", "d" >>

\* the path "w/docs/guide.md"
PathGuide ==
  << "w", "/", "d", "o", "c", "s", "/", "g", "u", "i", "d", "e", ".", "m",
     "d" >>

\* the path "w/x/guide.md"
PathDecoy ==
  << "w", "/", "x", "/", "g", "u", "i", "d", "e", ".", "m", "d" >>

\* the path "w/some-page.md"
PathSlug ==
  << "w", "/", "s", "o", "m", "e", "-", "p", "a", "g", "e", ".", "m", "d" >>

\* the path "w/Some Page.md"
PathSpaced ==
  << "w", "/", "S", "o", "m", "e", " ", "P", "a", "g", "e", ".", "m", "d" >>

\* the path "w/notes.txt"
PathNotes ==
  << "w", "/", "n", "o", "t", "e", "s", ".", "t", "x", "t" >>

\* Frontmatter blocks and whole files of the frontmatter inputs
Block(lines) == << LnDelim >> \o lines \o << LnDelim >>

FmNone == Text(<< LnText >>)
FmOpenOnly == Text(<< LnDelim, LnTitle, LnDate, LnTagsApi >>)
FmEmptyBlock == Text(<< LnDelim, LnDelim, LnText >>)
FmGoodScalar == Text(Block(<< LnTitle, LnDate, LnTagsApi >>) \o << LnText >>)
FmGoodList == Text(Block(<< LnTitle, LnDate, LnTagsKey, LnItemApi, LnItemInfra >>))
FmImpossibleDate == Text(Block(<< LnTitle, LnDateImpossible, LnTagsApi >>))
FmDateLayout == Text(Block(<< LnTitle, LnDateLayout, LnTagsApi >>))
FmDateLayoutThenDup == Text(Block(<< LnDateLayout, LnTitle, LnTagsApi, LnTitle >>))
FmNoTitle == Text(Block(<< LnDate, LnTagsApi >>))
FmEmptyTitle == Text(Block(<< LnTitleEmpty, LnDate, LnTagsApi >>))
FmEmptyTags == Text(Block(<< LnTitle, LnDate, LnTagsKey >>))
FmItemAfterTitle == Text(Block(<< LnTagsKey, LnTitle, LnItemApi, LnDate >>))
FmBareItem == Text(Block(<< LnTitle, LnBareItem, LnDate >>))
FmJunk == Text(Block(<< LnJunk, LnTitle, LnDate, LnTagsApi >>))
FmTagsThenJunk == Text(Block(<< LnTagsAPI, LnJunk >>))
FmLongCloser == Text(<< LnDelim, LnTitle, LnLongDelim, LnText >>)
FmTextCloser == Text(<< LnDelim, LnTitle, LnDate, LnTagsApi, LnDelimText >>)

FmContents ==
  { FmNone, FmOpenOnly, FmEmptyBlock, FmGoodScalar, FmGoodList, FmImpossibleDate,
    FmDateLayout, FmDateLayoutThenDup, FmNoTitle, FmEmptyTitle, FmEmptyTags,
    FmItemAfterTitle, FmBareItem, FmJunk, FmTagsThenJunk, FmLongCloser,
    FmTextCloser }

\* The well-formed blocks of the restricted grammar: the three required keys
\* in any order, tags as a scalar or as indented list items, with optional
\* blank lines and other keys
TagsChunks ==
  { << LnTagsApi >>, << LnTagsKey, LnItemApi >>,
    << LnTagsKey, LnItemAPI, LnItemInfra >>, << LnTagsInfra, LnItemApi >>,
    << LnTagsKey, LnBlank, LnItemApi >> }
Extras == { << >>, << LnBlank >>, << LnAuthor >> }

WellFormedBlocks ==
  { Block(p) : p \in
      UNION { { << LnTitle >> \o e \o << LnDate >> \o t,
                << LnDate >> \o t \o e \o << LnTitle >>,
                t \o << LnTitle >> \o e \o << LnDate >>,
                e \o << LnDate, LnTitle >> \o t,
                << LnTitle >> \o t \o << LnDate >> \o e,
                t \o e \o << LnDate, LnTitle >> } : e \in Extras, t \in TagsChunks } }

WellFormedContents ==
  { Text(b) : b \in WellFormedBlocks } \cup { Text(b \o << LnText >>) : b \in WellFormedBlocks }

\* Files of the tag inputs
TagFile(tagLines) == Text(Block(<< LnTitle, LnDate >> \o tagLines))
TagContents ==
  { TagFile(<< LnTagsAPI >>), TagFile(<< LnTagsApi >>), TagFile(<< LnTagsInfra >>),
    TagFile(<< LnTagsKey, LnItemApi, LnItemInfra >>),
    TagFile(<< LnTagsKey, LnItemAPI, LnItemApi >>),
    TagFile(<< LnTagsApi, LnItemApi >>),
    TagFile(<< >>), FmTagsThenJunk }

\* Files of the link inputs: a good block, then the body
LinkFile(body) == Text(Block(<< LnTitle, LnDate, LnTagsApi, LnItemApi >>) \o body)
LinkContents ==
  { LinkFile(<< LnWikiSomePage >>), LinkFile(<< LnText, LnWikiUnderscore >>),
    LinkFile(<< LnWikiEmptyNope, LnMdNope >>), LinkFile(<< LnMdGuide >>),
    LinkFile(<< LnMdUrl >>), LinkFile(<< LnMdAnchor, LnMdGuide >>),
    Text(<< LnWikiSomePage, LnMdGuide >>) }
PlainFile == LinkFile(<< LnText >>)
TargetPaths == { PathGuide, PathDecoy, PathSlug, PathSpaced }

\* Files with findings of all three kinds
MixedContents ==
  { Text(<< LnWikiEmptyNope >>),
    Text(Block(<< LnTitle, LnDateLayout, LnTagsKey, LnItemAPI, LnItemInfra >>)
         \o << LnMdNope >>),
    Text(Block(<< LnTitle, LnDate, LnTagsApi >>) \o << LnText, LnMdUrl >>) }

\* The largest number of markdown files of an input
MaxDocs == 2

\* The file systems with the first n of paths holding texts of pool
Assign(paths, pool, n) == [ { paths[k] : k \in 1..n } -> pool ]

Plain == << PathA, PathB, PathC, PathLinker >>

FrontmatterInputs == UNION { Assign(Plain, FmContents, n) : n \in 0..MaxDocs }
WellFormedInputs ==
  UNION { [ { PathA } -> WellFormedContents ],
          { (PathA :> c) @@ (PathB :> d) : c \in WellFormedContents, d \in { FmNone, FmJunk } } }
TagInputs == UNION { Assign(Plain, TagContents, n) : n \in 1..MaxDocs }
MixedInputs == UNION { Assign(Plain, MixedContents, n) : n \in 1..MaxDocs }
LinkInputs ==
  { (PathLinker :> c) @@ [ p \in T |-> PlainFile ] :
      c \in LinkContents,
      T \in { S \in SUBSET TargetPaths : Cardinality(S) + 1 <= MaxDocs } }

\* the line "title: [[nope]]"
LnTitleWiki ==
  << "t", "i", "t", "l", "e", ":", " ", "[", "[", "n", "o", "p", "e", "]",
     "]" >>

\* Inputs with a wikilink in the block, two documents of one stem, a key
\* that is not recognized given twice, and a list item before any key
ExtraInputs ==
  { (PathA :> Text(Block(<< LnTitleWiki, LnDate, LnTagsApi >>) \o << LnText >>)),
    (PathGuide :> PlainFile) @@ (PathDecoy :> PlainFile)
       @@ (PathLinker :> LinkFile(<< LnMdGuide >>)),
    (PathA :> Text(Block(<< LnAuthor, LnTitle, LnAuthor, LnDate >>))),
    (PathA :> Text(Block(<< LnItemApi, LnTitle >>))) }

\* A file that the walk skips (its name does not end in .md)
Skipped == (PathNotes :> Text(<< LnWikiSomePage >>))

FileSystems ==
  FrontmatterInputs \cup WellFormedInputs \cup TagInputs \cup MixedInputs
    \cup LinkInputs \cup { Skipped @@ f : f \in MixedInputs } \cup ExtraInputs

\* What the file system holds for a file os.ReadFile cannot read, and for a
\* directory os.ReadDir cannot list
Unreadable == << "permission denied" >>
Denied == << "permission denied", "directory" >>

\* the path "w/n"
RootN ==
  << "w", "/", "n" >>

\* the path "w/x"
RootX ==
  << "w", "/", "x" >>

\* the path "w/gone", which no input has
RootGone ==
  << "w", "/", "g", "o", "n", "e" >>

\* the path "./w/"
RootUnclean ==
  << ".", "/", "w", "/" >>

\* the path "w/n.md"
PathSibling ==
  << "w", "/", "n", ".", "m", "d" >>

\* the path "w/locked"
PathLocked ==
  << "w", "/", "l", "o", "c", "k", "e", "d" >>

\* The inputs for the roots: a tree with documents in w, w/n and w/x, and
\* the same tree with an unreadable document, an unlistable directory or an
\* unreadable file that is no document
Tree ==
  (PathA :> Text(Block(<< LnTitle, LnDateLayout, LnTagsKey, LnItemAPI, LnItemInfra >>)
                 \o << LnMdNope >>))
  @@ (PathLinker :> LinkFile(<< LnWikiSomePage, LnMdGuide >>))
  @@ (PathDecoy :> PlainFile)
  @@ (PathSibling :> FmNone)

RootFileSystems ==
  { Tree,
    (PathLinker :> Unreadable) @@ Tree,
    (PathA :> Unreadable) @@ Tree,
    (PathLocked :> Denied) @@ Tree,
    (PathNotes :> Unreadable) @@ Tree }

RootLists ==
  { << >>, << RootW >>, << RootW, RootW >>, << RootW, RootN >>, << RootN, RootW >>,
    << RootX, RootN >>, << RootN, RootX >>, << RootW, RootGone >>, << RootGone >>,
    << RootX, PathLocked >>, << RootUnclean >>, << PathA, RootX >>,
    << RootX, RootGone, RootN >> }

(***************************************************************************)
(* collectFiles                                                            *)
(***************************************************************************)

\* The entries filepath.WalkDir(root) visits in the file system fsys, the
\* directories that can be listed left out
Under(fsys, root) ==
  { p \in DOMAIN fsys :
      \/ p = Clean(root)
      \/ HasPrefix(p, Clean(root) \o << Slash >>)
      \/ Clean(root) = Dot /\ ~HasPrefix(p, << Slash >>) }

\* os.Lstat(root) succeeds
RootAlwaysExists(fsys, root) == TRUE

RootExists(fsys, root) == Under(fsys, root) # {}

\* Sequences of names in lexical order, name by name
RECURSIVE ElemsLess(_, _)
ElemsLess(a, b) ==
  IF b = << >> THEN FALSE
  ELSE IF a = << >> THEN TRUE
  ELSE IF a[1] = b[1] THEN ElemsLess(Tail(a), Tail(b))
  ELSE StrLess(a[1], b[1])

\* WalkDir visits p before q: the entries of each directory in lexical order
\* of their names, a directory's entries before its later siblings
WalkLess(p, q) == ElemsLess(Split(p, Slash), Split(q, Slash))

\* A set of paths as the sequence in the order of the walk
RECURSIVE Ascending(_)
Ascending(S) ==
  IF S = {} THEN << >>
  ELSE LET m == CHOOSE p \in S : \A q \in S : q = p \/ WalkLess(p, q)
       IN  << m >> \o Ascending(S \ { m })

\* The *fs.PathError of a failed operation on path
PathError(op, path) == [kind |-> op, line |-> 0, key |-> path, prev |-> 0]

\* The callback of WalkDir for the entry stored at key, visited as path: the
\* error of a directory that cannot be listed or a document that cannot be
\* read, else files with the wikiFile of a file whose lower-cased name ends
\* in .md appended
Visit(fsys, path, key, fls) ==
  IF fsys[key] = Denied THEN [files |-> fls, err |-> PathError("open", path)]
  ELSE IF HasSuffix(ToLower(Base(path)), MdSuffix)
  THEN IF fsys[key] = Unreadable
       THEN [files |-> fls, err |-> PathError("read", path)]
       ELSE [files |-> Append(fls, parseFile(path, fsys[key])), err |-> nil]
  ELSE [files |-> fls, err |-> nil]

\* The walk over the entries paths, stopping at the first error
RECURSIVE WalkFiles(_, _, _)
WalkFiles(fsys, paths, fls) ==
  IF paths = << >> THEN [files |-> fls, err |-> nil]
  ELSE LET v == Visit(fsys, paths[1], paths[1], fls)
       IN  IF v.err # nil THEN v
           ELSE WalkFiles(fsys, Tail(paths), v.files)

\* filepath.WalkDir(root, ...): a root that is a file is visited under the
\* name it was given by
WalkDir(fsys, root, fls) ==
  IF ~RootExists(fsys, root)
  THEN [files |-> fls, err |-> PathError("lstat", root)]
  ELSE IF Clean(root) \in DOMAIN fsys
  THEN Visit(fsys, root, Clean(root), fls)
  ELSE WalkFiles(fsys, Ascending(Under(fsys, root)), fls)

\* files with f inserted before the first file whose path is greater
RECURSIVE InsertByPath(_, _)
InsertByPath(fls, f) ==
  IF fls = << >> THEN << f >>
  ELSE IF StrLess(f.Path, fls[1].Path) THEN << f >> \o fls
  ELSE << fls[1] >> \o InsertByPath(Tail(fls), f)

\* The files in the order they were appended
Unsorted(fls) == fls

\* sort.Slice(files, by Path)
RECURSIVE SortByPath(_)
SortByPath(fls) ==
  IF fls = << >> THEN << >>
  ELSE InsertByPath(SortByPath(Tail(fls)), fls[1])

\* The loop of collectFiles over the roots rts, files being fls so far
RECURSIVE WalkRoots(_, _, _)
WalkRoots(fsys, rts, fls) ==
  IF rts = << >> THEN [files |-> fls, err |-> nil]
  ELSE LET w == WalkDir(fsys, rts[1], fls)
       IN  IF w.err # nil THEN [files |-> << >>, err |-> w.err]
           ELSE WalkRoots(fsys, Tail(rts), w.files)

collectFiles(fsys, rts) ==
  LET w == WalkRoots(fsys, rts, << >>)
  IN  IF w.err # nil THEN w ELSE [files |-> SortByPath(w.files), err |-> nil]

(***************************************************************************)
(* Run, as the sequence of its phases.                                     *)
(***************************************************************************)

VARIABLES
  fs,        \* the file system: path -> text
  roots,     \* the argument of Run
  pc,        \* the phase of Run
  walked,    \* how many of the roots collectFiles has walked
  files,     \* []wikiFile
  index,     \* map[string]string
  results,   \* []sarif.Result
  log,       \* the *sarif.Log returned
  err,       \* the error returned
  first,     \* the log the first Run over this file system returned
  baseline,        \* dbsanity: Baseline.Tables, table -> expected count
  database,        \* dbsanity: the database file at dbPath
  threshold,       \* dbsanity: the drift threshold, in percent
  dbpc,            \* dbsanity: the position of CheckDatabase
  existingTables,  \* dbsanity: the map listTables returned
  pending,         \* dbsanity: the baseline tables the range has yet to visit
  dbResults,       \* dbsanity: []sarif.Result
  dbErr            \* dbsanity: the error CheckDatabase returned

wikiVars == << fs, roots, pc, walked, files, index, results, log, err, first >>

dbVars ==
  << baseline, database, threshold, dbpc, existingTables, pending, dbResults, dbErr >>

vars == << wikiVars, dbVars >>

\* (*sarif.Log)(nil)
NilLog == [Version |-> "nil", Runs |-> << >>]
Version == "2.1.0"

\* The name of the tool driver of the run
DriverNameOfPackage == "wikifmt"
DriverName == "lintkit-wikifmt"

\* The order of the phases of Run
PhasesLinksFirst ==
  << "collectFiles", "buildIndex", "checkFrontmatter", "checkLinks", "checkTags",
     "newLog", "done" >>

Phases ==
  << "collectFiles", "buildIndex", "checkFrontmatter", "checkTags", "checkLinks",
     "newLog", "done" >>

\* The phase that follows phase p
After(p) == Phases[(CHOOSE k \in 1..Len(Phases) : Phases[k] = p) + 1]

Init ==
  /\ \/ fs \in FileSystems /\ roots = << RootW >>
     \/ fs \in RootFileSystems /\ roots \in RootLists
  /\ pc = "collectFiles"
  /\ walked = 0
  /\ files = << >>
  /\ index = << >>
  /\ results = << >>
  /\ log = NilLog
  /\ err = nil
  /\ first = NilLog
  /\ baseline = << >>
  /\ database = [ok |-> TRUE, tables |-> << >>, locked |-> {}]
  /\ threshold = 0
  /\ dbpc = "idle"
  /\ existingTables = << >>
  /\ pending = {}
  /\ dbResults = << >>
  /\ dbErr = "nil"

\* The roots the loop of collectFiles ranges over
RootsOrWorkingDirectory(rts) == IF rts = << >> THEN << Dot >> ELSE rts

RootsToWalk(rts) == rts

\* The loop of collectFiles has walked every root
LoopDoneAfterFirstRoot == walked >= 1 \/ RootsToWalk(roots) = << >>

LoopDone == walked = Len(RootsToWalk(roots))

\* for _, root := range roots { err := filepath.WalkDir(root, ...) }, a walk
\* that returns no error
WalkRoot ==
  /\ pc = "collectFiles"
  /\ ~LoopDone
  /\ LET w == WalkDir(fs, RootsToWalk(roots)[walked + 1], files)
     IN  /\ w.err = nil
         /\ files' = w.files
  /\ walked' = walked + 1
  /\ UNCHANGED << fs, roots, pc, index, results, log, err, first, dbVars >>

\* A walk that returns an error: collectFiles returns nil, err and Run
\* returns nil, err
WalkFail ==
  /\ pc = "collectFiles"
  /\ ~LoopDone
  /\ LET w == WalkDir(fs, RootsToWalk(roots)[walked + 1], files)
     IN  /\ w.err # nil
         /\ err' = w.err
  /\ files' = << >>
  /\ pc' = "failed"
  /\ UNCHANGED << fs, roots, walked, index, results, log, first, dbVars >>

\* sort.Slice(files, ...); return files, nil
CollectFiles ==
  /\ pc = "collectFiles"
  /\ LoopDone
  /\ files' = SortByPath(files)
  /\ pc' = After(pc)
  /\ UNCHANGED << fs, roots, walked, index, results, log, err, first, dbVars >>

\* index := buildIndex(files)
BuildIndex ==
  /\ pc = "buildIndex"
  /\ index' = buildIndex(files)
  /\ pc' = After(pc)
  /\ UNCHANGED << fs, roots, walked, files, results, log, err, first, dbVars >>

RECURSIVE FrontmatterLoop(_, _)
FrontmatterLoop(fls, k) ==
  IF k > Len(fls) THEN << >>
  ELSE checkFrontmatter(fls[k]) \o FrontmatterLoop(fls, k + 1)

RECURSIVE LinksLoop(_, _, _)
LinksLoop(fls, k, idx) ==
  IF k > Len(fls) THEN << >>
  ELSE checkLinks(fls[k], idx) \o LinksLoop(fls, k + 1, idx)

\* for _, f := range files { results = append(results, checkFrontmatter(f)...) }
CheckFrontmatter ==
  /\ pc = "checkFrontmatter"
  /\ results' = results \o FrontmatterLoop(files, 1)
  /\ pc' = After(pc)
  /\ UNCHANGED << fs, roots, walked, files, index, log, err, first, dbVars >>

\* results = append(results, checkTags(files)...)
CheckTags ==
  /\ pc = "checkTags"
  /\ \E order \in Orders(TagKeys(files)) :
       results' = results \o checkTags(files, order)
  /\ pc' = After(pc)
  /\ UNCHANGED << fs, roots, walked, files, index, log, err, first, dbVars >>

\* for _, f := range files { results = append(results, checkLinks(f, index)...) }
CheckLinks ==
  /\ pc = "checkLinks"
  /\ results' = results \o LinksLoop(files, 1, index)
  /\ pc' = After(pc)
  /\ UNCHANGED << fs, roots, walked, files, index, log, err, first, dbVars >>

\* sarif.NewLog(): the schema version and no runs
sarifNewLog == [Version |-> Version, Runs |-> << >>]

\* log := sarif.NewLog(); log.Runs = append(log.Runs, ...); return log, nil
NewLog ==
  /\ pc = "newLog"
  /\ log' = [sarifNewLog EXCEPT
               !.Runs = Append(@, [Tool |-> DriverName, Results |-> results])]
  /\ pc' = After(pc)
  /\ UNCHANGED << fs, roots, walked, files, index, results, err, first, dbVars >>

\* Run is called once more over the unchanged file system and roots
RunAgain ==
  /\ pc = "done"
  /\ first = NilLog
  /\ first' = log
  /\ pc' = "collectFiles"
  /\ walked' = 0
  /\ files' = << >>
  /\ index' = << >>
  /\ results' = << >>
  /\ log' = NilLog
  /\ UNCHANGED << fs, roots, err, dbVars >>

Next ==
  \/ WalkRoot
  \/ WalkFail
  \/ CollectFiles
  \/ BuildIndex
  \/ CheckFrontmatter
  \/ CheckTags
  \/ CheckLinks
  \/ NewLog
  \/ RunAgain

Spec == Init /\ [][Next]_vars

(***************************************************************************)
(* dbsanity: CheckDatabase, one step for listTables and one for each table *)
(* of the range over baseline.Tables.                                      *)
(***************************************************************************)

\* The tables and counts of the inputs
BaselineTables == { "nugs", "tags" }
DatabaseTables == { "nugs", "tags", "extra" }
BaselineCounts == { 0, 3, 10 }
RowCounts == { 0, 1, 10 }
Thresholds == { 0, 20, 100 }

Baselines == UNION { [ S -> BaselineCounts ] : S \in SUBSET BaselineTables }

\* A database that sqlite3 can open, with the row count of each table and
\* the tables whose rows cannot be counted; and a file that it cannot open
Databases ==
  { [ok |-> TRUE, tables |-> t, locked |-> l] :
      t \in UNION { [ S -> RowCounts ] : S \in SUBSET DatabaseTables },
      l \in { {}, { "tags" } } }
    \cup { [ok |-> FALSE, tables |-> << >>, locked |-> {}] }

dbPath == "app.db"

\* percentageDiff: the quotient 100 * (current - baseline) / denom, kept as
\* its numerator and denominator
percentageDiff(base, current) ==
  LET denom == IF base = 0 THEN 1 ELSE base
  IN  [num |-> 100 * (current - base), den |-> denom]

AbsInt(n) == IF n < 0 THEN 0 - n ELSE n

\* math.Abs(diffPct) > threshold
ExceedsThreshold(diffPct, limit) == AbsInt(diffPct.num) > limit * AbsInt(diffPct.den)

\* The result CheckDatabase appends for a table
DriftResult(table, baselineCount, currentCount, diffPct, missing) ==
  [RuleID |-> "db-row-drift", Level |-> "error",
   Message |-> [format |-> IF missing
                           THEN "Table %s missing: baseline=%d current=0 diff=%.2f%%"
                           ELSE "Table %s drifted: baseline=%d current=%d diff=%.2f%%",
                table |-> table, baseline |-> baselineCount,
                current |-> currentCount, diff |-> diffPct],
   URI |-> dbPath]

InitDb ==
  /\ fs = << >>
  /\ roots = << >>
  /\ pc = "idle"
  /\ walked = 0
  /\ files = << >>
  /\ index = << >>
  /\ results = << >>
  /\ log = NilLog
  /\ err = nil
  /\ first = NilLog
  /\ baseline \in Baselines
  /\ database \in Databases
  /\ threshold \in Thresholds
  /\ dbpc = "listTables"
  /\ existingTables = << >>
  /\ pending = {}
  /\ dbResults = << >>
  /\ dbErr = "nil"

\* existingTables, err := listTables(ctx, dbPath), without error: every
\* table name with the value 0
ListTables ==
  /\ dbpc = "listTables"
  /\ database.ok
  /\ existingTables' = [ t \in DOMAIN database.tables |-> 0 ]
  /\ pending' = DOMAIN baseline
  /\ dbpc' = "range"
  /\ UNCHANGED << wikiVars, baseline, database, threshold, dbResults, dbErr >>

\* listTables returns an error: return nil, err
ListTablesFail ==
  /\ dbpc = "listTables"
  /\ ~database.ok
  /\ dbErr' = "sqlite3"
  /\ dbpc' = "failed"
  /\ UNCHANGED << wikiVars, baseline, database, threshold, existingTables, pending,
                  dbResults >>

\* One iteration of the range over baseline.Tables, which visits the tables
\* in an unspecified order, countRows returning a count
CheckTable ==
  /\ dbpc = "range"
  /\ \E table \in pending :
       LET baselineCount == baseline[table]
           missing == table \notin DOMAIN existingTables
           currentCount == IF missing THEN 0 ELSE database.tables[table]
           diffPct == percentageDiff(baselineCount, currentCount)
       IN  /\ missing \/ table \notin database.locked
           /\ dbResults' = IF ExceedsThreshold(diffPct, threshold)
                            THEN Append(dbResults,
                                        DriftResult(table, baselineCount, currentCount,
                                                    diffPct, missing))
                            ELSE dbResults
           /\ pending' = pending \ { table }
  /\ UNCHANGED << wikiVars, baseline, database, threshold, dbpc, existingTables, dbErr >>

\* countRows returns an error for a table of the database: return nil, err
CountRowsFail ==
  /\ dbpc = "range"
  /\ \E table \in pending :
       /\ table \in DOMAIN existingTables
       /\ table \in database.locked
  /\ dbResults' = << >>
  /\ dbErr' = "sqlite3"
  /\ dbpc' = "failed"
  /\ UNCHANGED << wikiVars, baseline, database, threshold, existingTables, pending >>

\* return results, nil
ReturnResults ==
  /\ dbpc = "range"
  /\ pending = {}
  /\ dbpc' = "returned"
  /\ UNCHANGED << wikiVars, baseline, database, threshold, existingTables, pending,
                  dbResults, dbErr >>

NextDb ==
  \/ ListTables
  \/ ListTablesFail
  \/ CheckTable
  \/ CountRowsFail
  \/ ReturnResults

SpecDb == InitDb /\ [][NextDb]_vars

(***************************************************************************)
(* The claims.                                                             *)
(***************************************************************************)

\* "Some Page"
TgtSomePage ==
  << "S", "o", "m", "e", " ", "P", "a", "g", "e" >>

\* "some_page"
TgtUnderscore ==
  << "s", "o", "m", "e", "_", "p", "a", "g", "e" >>

\* " Guide "
TgtGuideSpaced ==
  << " ", "G", "u", "i", "d", "e", " " >>

\* " "
TgtBlank ==
  << " " >>

\* "nope"
TgtNope ==
  << "n", "o", "p", "e" >>

\* "../docs/guide.md"
TgtGuideMd ==
  << ".", ".", "/", "d", "o", "c", "s", "/", "g", "u", "i", "d", "e", ".",
     "m", "d" >>

\* "guide"
StemGuide ==
  << "g", "u", "i", "d", "e" >>

\* "2024-13-45"
ValImpossible ==
  << "2", "0", "2", "4", "-", "1", "3", "-", "4", "5" >>

\* "://"
SchemeMarker ==
  << ":", "/", "/" >>


\* The findings of the returned report
Report == IF log = NilLog THEN << >> ELSE log.Runs[1].Results

Returned == pc = "done"

\* How many elements of sequence s equal x
Count(s, x) == Cardinality({ k \in 1..Len(s) : s[k] = x })

\* How many times sub occurs in s
Occurs(s, sub) ==
  Cardinality({ k \in 1..(Len(s) - Len(sub) + 1) : Sub(s, k, k + Len(sub) - 1) = sub })

\* The markdown files under the roots, and the lines of one of them
Scanned ==
  { p \in DOMAIN fs : /\ \E r \in 1..Len(roots) : p \in Under(fs, roots[r])
                      /\ HasSuffix(ToLower(Base(p)), MdSuffix) }
LinesOf(p) == Split(fs[p], "\n")

\* How many of the loaded documents have path p
Instances(p) == Cardinality({ k \in 1..Len(files) : files[k].Path = p })

FrontmatterRules ==
  { "wiki-frontmatter-yaml", "wiki-frontmatter-required", "wiki-date-format" }
TagRules == { "wiki-tag-orphan", "wiki-tag-case-variant" }
LinkRules == { "wiki-link-broken" }

\* 1, 2, 3 for a frontmatter, tag, link finding
Stage(r) ==
  IF r.RuleID \in FrontmatterRules THEN 1
  ELSE IF r.RuleID \in TagRules THEN 2
  ELSE IF r.RuleID \in LinkRules THEN 3
  ELSE 0

Ordered(rs) ==
  \A a, b \in 1..Len(rs) :
    a < b =>
      /\ Stage(rs[a]) \in 1..3
      /\ Stage(rs[a]) <= Stage(rs[b])
      /\ (Stage(rs[a]) = Stage(rs[b]) /\ Stage(rs[a]) # 2)
            => ~StrLess(rs[b].URI, rs[a].URI)

\* C1: in the findings collected so far and in the returned report, no
\* frontmatter finding follows a tag or link finding, no tag finding follows
\* a link finding, and the frontmatter findings and the link findings are
\* each in ascending order of their document's path (the load order).
C1_FindingsOrdered == Ordered(results) /\ Ordered(Report)

\* A returned report with findings of all three stages, the frontmatter
\* findings and the link findings each of two documents
C1_Witness ==
  /\ Returned
  /\ \E a, b, c, d, e \in 1..Len(Report) :
       /\ a < b /\ b < c /\ c < d /\ d < e
       /\ Stage(Report[a]) = 1 /\ Stage(Report[b]) = 1
       /\ Report[a].URI # Report[b].URI
       /\ Stage(Report[c]) = 2
       /\ Stage(Report[d]) = 3 /\ Stage(Report[e]) = 3
       /\ Report[d].URI # Report[e].URI

\* C2: a second Run over the unchanged roots and files returns the report
\* the first Run returned: the same findings in the same order.
C2_SecondRunIdentical == (Returned /\ first # NilLog) => log = first

\* C3: a document whose frontmatter parses and has date: 2024-13-45 gets a
\* wiki-date-format finding that cites 2024-13-45, and no missing-date
\* finding.
C3_ImpossibleDateReported ==
  Returned =>
    \A k \in 1..Len(files) :
      (/\ files[k].FrontmatterErr = nil
       /\ files[k].Frontmatter.Date.IsSet
       /\ files[k].Frontmatter.Date.Value = ValImpossible)
      => /\ \E r \in 1..Len(Report) :
              /\ Report[r].RuleID = "wiki-date-format"
              /\ Report[r].URI = files[k].Path
              /\ Report[r].Message.a = ValImpossible
         /\ ~\E r \in 1..Len(Report) :
              /\ Report[r].RuleID = "wiki-frontmatter-required"
              /\ Report[r].URI = files[k].Path
              /\ Report[r].Message = RequiredKey("date")

\* The finding checkLinks produces for a broken link of one kind
BrokenLink(kind, path, line, target) ==
  [RuleID |-> "wiki-link-broken", Level |-> "error",
   Message |-> Msg(IF kind = "wikilink" THEN "broken wikilink [[%s]]"
                   ELSE "broken markdown link %s", target, << >>, nil),
   URI |-> path, StartLine |-> line]

\* The text of a markdown link's target part, and of a wikilink
MdText(target) == << "]", "(" >> \o target \o << ")" >>
WikiText(target) == << "[", "[" >> \o target \o << "]", "]" >>

\* The location a markdown link of document p points to
Resolved(p, target) == Clean(Join(Dir(p), target))

\* Some scanned document's filename stem is stem, case-insensitively or by slug
StemScanned(stem) ==
  \E g \in Scanned : ToLower(Stem(g)) = ToLower(stem) \/ slugify(Stem(g)) = slugify(stem)

\* The original C4: the link [x](../docs/guide.md) of a document gets no
\* finding when a file exists at the resolved location, and exactly one
\* wiki-link-broken finding when none does, whatever else is scanned.
C4_GuideLinkByLocation ==
  Returned =>
    \A p \in Scanned : \A n \in 1..Len(LinesOf(p)) :
      Occurs(LinesOf(p)[n], MdText(TgtGuideMd)) > 0 =>
        Count(Report, BrokenLink("markdown", p, n, TgtGuideMd))
          = IF Resolved(p, TgtGuideMd) \in DOMAIN fs THEN 0
            ELSE Occurs(LinesOf(p)[n], MdText(TgtGuideMd)) * Instances(p)

\* C4 as amended: the link [x](../docs/guide.md) gets no finding when a
\* scanned document is at the resolved location or any scanned document, in
\* any directory, has the filename stem guide (case-insensitively or by
\* slug); otherwise it gets exactly one wiki-link-broken finding.
C4_GuideLinkByStem ==
  Returned =>
    \A p \in Scanned : \A n \in 1..Len(LinesOf(p)) :
      Occurs(LinesOf(p)[n], MdText(TgtGuideMd)) > 0 =>
        /\ Count(Report, BrokenLink("markdown", p, n, TgtGuideMd))
             = IF StemScanned(StemGuide) THEN 0
               ELSE Occurs(LinesOf(p)[n], MdText(TgtGuideMd)) * Instances(p)
        /\ Resolved(p, TgtGuideMd) \in Scanned => StemScanned(StemGuide)

\* A returned report with exactly one finding for a link to ../docs/guide.md
\* whose target is absent and which no other document's stem resolves
C4_Witness ==
  /\ Returned
  /\ \E p \in Scanned : \E n \in 1..Len(LinesOf(p)) :
       /\ Occurs(LinesOf(p)[n], MdText(TgtGuideMd)) = 1
       /\ Resolved(p, TgtGuideMd) \notin DOMAIN fs
       /\ Count(Report, BrokenLink("markdown", p, n, TgtGuideMd)) = 1

\* A link target that is an anchor or an absolute URL
OutOfScope(target) == HasPrefix(target, << "#" >>) \/ Occurs(target, SchemeMarker) > 0

\* C5: no loaded document has a link whose target is an anchor or an
\* absolute URL (they are filtered before link matching), and no
\* wiki-link-broken finding names such a target.
C5_AnchorsAndUrlsFiltered ==
  /\ \A k \in 1..Len(files) : \A l \in 1..Len(files[k].Links) :
       ~OutOfScope(files[k].Links[l].Target)
  /\ \A r \in 1..Len(results) :
       results[r].RuleID = "wiki-link-broken" => ~OutOfScope(results[r].Message.a)

\* The wikilink targets of the inputs
WikiTargets == { TgtSomePage, TgtUnderscore, TgtGuideSpaced, TgtBlank, TgtNope }

\* C6: for the wikilink [[T]] on line n of a scanned document, the report has
\* no wiki-link-broken finding when T is not blank and some scanned
\* document's stem matches T case-insensitively or by slug, and otherwise
\* exactly one such finding, at line n, naming T as written.
C6_WikiLinkFindings ==
  Returned =>
    \A p \in Scanned :
      LET lines == LinesOf(p)
      IN  \A n \in 1..Len(lines) : \A t \in WikiTargets :
            LET occurs == Occurs(lines[n], WikiText(t))
            IN  occurs > 0 =>
                  Count(Report, BrokenLink("wikilink", p, n, t))
                    = IF TrimSpace(t) # << >> /\ StemScanned(t) THEN 0
                      ELSE occurs * Instances(p)

\* A returned report for a line with [[some_page]], resolved by the slug of
\* some-page.md, and [[ Guide ]], broken, with its one finding
C6_Witness ==
  /\ Returned
  /\ \E p \in Scanned : \E n \in 1..Len(LinesOf(p)) :
       /\ Occurs(LinesOf(p)[n], WikiText(TgtUnderscore)) = 1
       /\ Occurs(LinesOf(p)[n], WikiText(TgtGuideSpaced)) = 1
       /\ PathSlug \in Scanned
       /\ Count(Report, BrokenLink("wikilink", p, n, TgtUnderscore)) = 0
       /\ Count(Report, BrokenLink("wikilink", p, n, TgtGuideSpaced)) = 1

\* The tag occurrences of the loaded documents: (document, tag) positions
TagPositions ==
  UNION { { << k, t >> : t \in 1..Len(files[k].Tags) } : k \in 1..Len(files) }

TagAt(o) == files[o[1]].Tags[o[2]]

\* The occurrences of the group of the lower-cased tag norm
Group(norm) == { o \in TagPositions : ToLower(TagAt(o).Value) = norm }
Norms == { ToLower(TagAt(o).Value) : o \in TagPositions }

\* The findings of the two tag rules for occurrence o
OrphanFinding(o) ==
  [RuleID |-> "wiki-tag-orphan", Level |-> "warning",
   Message |-> Msg("tag %q is only used once", TagAt(o).Value, << >>, nil),
   URI |-> files[o[1]].Path, StartLine |-> TagAt(o).Line]
VariantFinding(o) ==
  [RuleID |-> "wiki-tag-case-variant", Level |-> "warning",
   Message |-> Msg("tag %q has case variants; prefer consistent casing for %q",
                   TagAt(o).Value, ToLower(TagAt(o).Value), nil),
   URI |-> files[o[1]].Path, StartLine |-> TagAt(o).Line]

\* The findings of the report of one rule whose tag lower-cases to norm
OfGroup(rule, norm) ==
  { r \in 1..Len(Report) :
      Report[r].RuleID = rule /\ ToLower(Report[r].Message.a) = norm }

\* C7: a tag group with exactly one occurrence in the corpus has exactly one
\* wiki-tag-orphan finding, a warning at the occurrence's document and line
\* that names the raw tag; a group with two or more occurrences has none;
\* and there is no orphan finding but these.
C7_OrphanFindings ==
  Returned =>
    /\ \A norm \in Norms :
         IF Cardinality(Group(norm)) = 1
         THEN /\ Cardinality(OfGroup("wiki-tag-orphan", norm)) = 1
              /\ \A o \in Group(norm) : Count(Report, OrphanFinding(o)) = 1
         ELSE OfGroup("wiki-tag-orphan", norm) = {}
    /\ \A r \in 1..Len(Report) :
         Report[r].RuleID = "wiki-tag-orphan" => ToLower(Report[r].Message.a) \in Norms

\* A returned report of two documents where one group has one occurrence
\* (and its orphan finding) and another group has two (and none)
C7_Witness ==
  /\ Returned
  /\ \E m, n \in Norms :
       /\ Cardinality(Group(m)) = 1
       /\ Cardinality(Group(n)) = 2
       /\ \E o, q \in Group(n) : o[1] # q[1]
       /\ Cardinality(OfGroup("wiki-tag-orphan", m)) = 1
       /\ OfGroup("wiki-tag-orphan", n) = {}

\* The occurrences of o's group that equal o in document, line and raw text
Same(o) ==
  { q \in Group(ToLower(TagAt(o).Value)) :
      /\ files[q[1]].Path = files[o[1]].Path
      /\ TagAt(q) = TagAt(o) }

\* C8: a tag group with two or more distinct raw casings has exactly one
\* wiki-tag-case-variant warning per occurrence, naming the occurrence's raw
\* text and the lower-cased form; a group with one casing has none.
C8_CaseVariantFindings ==
  Returned =>
    \A norm \in Norms :
      IF Cardinality({ TagAt(o).Value : o \in Group(norm) }) >= 2
      THEN /\ Cardinality(OfGroup("wiki-tag-case-variant", norm))
                = Cardinality(Group(norm))
           /\ \A o \in Group(norm) :
                Count(Report, VariantFinding(o)) = Cardinality(Same(o))
      ELSE OfGroup("wiki-tag-case-variant", norm) = {}

\* A returned report with API in one document and api in another: exactly
\* two case-variant findings, one per document
C8_Witness ==
  /\ Returned
  /\ \E o, q \in TagPositions :
       /\ o[1] # q[1]
       /\ TagAt(o).Value = << "A", "P", "I" >>
       /\ TagAt(q).Value = << "a", "p", "i" >>
       /\ Cardinality(Group(<< "a", "p", "i" >>)) = 2
       /\ Cardinality(OfGroup("wiki-tag-case-variant", << "a", "p", "i" >>)) = 2
       /\ Count(Report, VariantFinding(o)) = 1
       /\ Count(Report, VariantFinding(q)) = 1

\* The frontmatter findings of the report for the document at path p
FrontmatterFindings(p) ==
  SelectSeq(Report, LAMBDA r : r.RuleID \in FrontmatterRules /\ r.URI = p)

\* The text has a block delimited by lines that are exactly ---
Delimited(lines) ==
  /\ Len(lines) >= 1
  /\ lines[1] = LnDelim
  /\ \E k \in 2..Len(lines) : lines[k] = LnDelim

\* The four findings of a document without frontmatter
MissingFindings(p) ==
  << newResult("wiki-frontmatter-yaml",
               Msg("invalid frontmatter YAML: %s", << >>, << >>, errMissingFrontmatter),
               p, 1),
     newResult("wiki-frontmatter-required", RequiredKey("title"), p, 1),
     newResult("wiki-frontmatter-required", RequiredKey("date"), p, 1),
     newResult("wiki-frontmatter-required", RequiredKey("tags"), p, 1) >>

\* C9: a document without a block delimited by --- lines has exactly one
\* wiki-frontmatter-yaml finding (missing frontmatter) and one
\* wiki-frontmatter-required finding each for title, date and tags, all at
\* line 1, and no other frontmatter finding.
C9_MissingFrontmatterFindings ==
  Returned =>
    \A p \in Scanned :
      (~Delimited(LinesOf(p)) /\ Instances(p) = 1)
        => FrontmatterFindings(p) = MissingFindings(p)

\* C10: a document whose text is a well-formed block with a non-empty title,
\* a YYYY-MM-DD date and at least one tags entry (scalar or indented list
\* items), with or without text after it, has no frontmatter finding.
C10_WellFormedNoFindings ==
  Returned =>
    \A p \in Scanned :
      fs[p] \in WellFormedContents => FrontmatterFindings(p) = << >>

\* A returned report of a well-formed document with listed tags, without
\* frontmatter findings, beside a document that has some
C10_Witness ==
  /\ Returned
  /\ \E p, q \in Scanned :
       /\ fs[p] \in WellFormedContents
       /\ Occurs(fs[p], LnItemInfra) = 1
       /\ FrontmatterFindings(p) = << >>
       /\ FrontmatterFindings(q) # << >>

\* Run has returned an error and no log
Failed == pc = "failed"

\* The walk of root r fails: r does not exist, a directory under it cannot
\* be listed, or a markdown file under it cannot be read
RootFails(r) ==
  \/ Under(fs, r) = {}
  \/ \E p \in Under(fs, r) :
       \/ fs[p] = Denied
       \/ fs[p] = Unreadable /\ HasSuffix(ToLower(Base(p)), MdSuffix)

Broken == \E k \in 1..Len(roots) : RootFails(roots[k])

\* C11: when some root does not exist or cannot be listed, or some markdown
\* file under a root cannot be read, Run never gets past loading and never
\* returns a log: it ends with an error, a nil log and no findings; and a
\* Run that returns a log has met no such root or file.
C11_FailFast ==
  /\ Broken => (Failed \/ (pc = "collectFiles" /\ walked < Len(roots)))
  /\ Failed => (Broken /\ err # nil /\ log = NilLog /\ Report = << >>)
  /\ Returned => (~Broken /\ err = nil /\ log # NilLog)

\* A failed Run whose first root was walked and held a document with
\* findings before the second root turned out not to exist
C11_Witness ==
  /\ Failed
  /\ walked = 1
  /\ Len(roots) >= 2
  /\ PathA \in Under(fs, roots[1])
  /\ checkFrontmatter(parseFile(PathA, fs[PathA])) # << >>
  /\ Under(fs, roots[2]) = {}
  /\ log = NilLog

\* C12: the loaded documents never include two with the same path, whatever
\* the roots.
C12_PathsUnique ==
  \A a, b \in 1..Len(files) : a # b => files[a].Path # files[b].Path

\* C13: a loaded document whose text does not start with a --- line that a
\* later line that is exactly --- closes has the missing-frontmatter error.
C13_ExactDelimiters ==
  \A k \in 1..Len(files) :
    ~Delimited(files[k].Lines) => files[k].FrontmatterErr = errMissingFrontmatter

\* How many findings of the report have this rule and this document
RuleCount(rule, p) ==
  Cardinality({ r \in 1..Len(Report) : Report[r].RuleID = rule /\ Report[r].URI = p })

\* C14: a document whose block fails to parse has exactly one
\* wiki-frontmatter-yaml finding and no wiki-frontmatter-required or
\* wiki-date-format finding; a document with the missing-frontmatter error
\* has its one wiki-frontmatter-yaml finding and the required-key findings.
C14_ParseErrorBlocksChecks ==
  Returned =>
    \A k \in 1..Len(files) :
      LET f == files[k]
          p == f.Path
      IN  /\ f.FrontmatterErr \notin { nil, errMissingFrontmatter } =>
               /\ RuleCount("wiki-frontmatter-yaml", p) = Instances(p)
               /\ RuleCount("wiki-frontmatter-required", p) = 0
               /\ RuleCount("wiki-date-format", p) = 0
          /\ f.FrontmatterErr = errMissingFrontmatter =>
               /\ RuleCount("wiki-frontmatter-yaml", p) = Instances(p)
               /\ RuleCount("wiki-frontmatter-required", p) = 3 * Instances(p)

\* A returned report of a document whose parse stopped with a date of the
\* wrong layout recorded and of one whose parse stopped with no title
\* recorded, each with its one yaml finding
C14_Witness ==
  /\ Returned
  /\ \E j, k \in 1..Len(files) :
       /\ files[j].FrontmatterErr \notin { nil, errMissingFrontmatter }
       /\ files[j].Frontmatter.Date.IsSet
       /\ ~datePattern(files[j].Frontmatter.Date.Value)
       /\ files[k].FrontmatterErr \notin { nil, errMissingFrontmatter }
       /\ ~files[k].Frontmatter.Title.IsSet
       /\ RuleCount("wiki-frontmatter-yaml", files[j].Path) = 1
       /\ RuleCount("wiki-frontmatter-yaml", files[k].Path) = 1

\* The lines of the block of a document whose frontmatter was found
BlockLines(f) == Split(frontmatterPattern(f.Content).raw, "\n")

\* Line is a key line of key with a value that is not empty
KeyLine(line, key) ==
  LET parts == SplitN2(line, ":")
  IN  /\ ~HasPrefix(line, ListPrefix)
      /\ Len(parts) = 2
      /\ TrimSpace(parts[1]) = key
      /\ TrimSpace(parts[2]) # << >>

\* The block of f records key: a key line with a value, or for tags a list
\* item
Recorded(f, key) ==
  LET lines == BlockLines(f)
  IN  \E n \in 1..Len(lines) :
        \/ KeyLine(lines[n], key)
        \/ key = KeyTags /\ HasPrefix(lines[n], ListPrefix)

RequiredKeys ==
  { << KeyTitle, "title" >>, << KeyDate, "date" >>, << KeyTags, "tags" >> }

\* C15: for a document whose frontmatter parsed without error, the report
\* has the wiki-frontmatter-required finding for title, date or tags, at
\* line 1, exactly when the block does not record that key (the key is
\* absent, or its value is empty and for tags no list item follows), once
\* per key, and no other wiki-frontmatter-required finding.
C15_RequiredKeys ==
  Returned =>
    \A k \in 1..Len(files) :
      files[k].FrontmatterErr = nil =>
        LET f == files[k]
            p == f.Path
            missing == { key \in RequiredKeys : ~Recorded(f, key[1]) }
        IN  /\ \A key \in RequiredKeys :
                 Count(Report, newResult("wiki-frontmatter-required",
                                         RequiredKey(key[2]), p, 1))
                   = IF key \in missing THEN Instances(p) ELSE 0
            /\ RuleCount("wiki-frontmatter-required", p)
                 = Cardinality(missing) * Instances(p)

\* A returned report of a document with the line title: and no value, with
\* its one finding for title, and of a document with tags: followed by list
\* items, with no finding for tags
C15_Witness ==
  /\ Returned
  /\ \E j, k \in 1..Len(files) :
       /\ files[j].FrontmatterErr = nil
       /\ \E n \in 1..Len(BlockLines(files[j])) : BlockLines(files[j])[n] = LnTitleEmpty
       /\ Count(Report, newResult("wiki-frontmatter-required", RequiredKey("title"),
                                  files[j].Path, 1)) = 1
       /\ files[k].FrontmatterErr = nil
       /\ \E n \in 1..Len(BlockLines(files[k])) : BlockLines(files[k])[n] = LnTagsKey
       /\ Recorded(files[k], KeyTags)
       /\ RuleCount("wiki-frontmatter-required", files[k].Path) = 0

ErrorRules ==
  { "wiki-frontmatter-yaml", "wiki-frontmatter-required", "wiki-date-format",
    "wiki-link-broken" }
WarningRules == { "wiki-tag-orphan", "wiki-tag-case-variant" }

\* The finding has one of the six rules and the level of its rule
Levelled(r) ==
  \/ r.RuleID \in ErrorRules /\ r.Level = "error"
  \/ r.RuleID \in WarningRules /\ r.Level = "warning"

\* C16: every finding collected and every finding of the report has one of
\* the six rules, with level error for the frontmatter, date and link rules
\* and level warning for the two tag rules.
C16_Levels ==
  /\ \A r \in 1..Len(results) : Levelled(results[r])
  /\ \A r \in 1..Len(Report) : Levelled(Report[r])

\* A returned report with a finding of each of the six rules
C16_Witness ==
  /\ Returned
  /\ \A rule \in ErrorRules \cup WarningRules :
       \E r \in 1..Len(Report) : Report[r].RuleID = rule

\* Every markdown file under every root is among the loaded documents
AllLoaded ==
  \A p \in Scanned : \E k \in 1..Len(files) : files[k].Path = p /\ files[k].Content = fs[p]

\* The index has the stem of every markdown file under every root
IndexFull ==
  \A p \in Scanned :
    /\ ToLower(Stem(p)) \in DOMAIN index
    /\ slugify(Stem(p)) \in DOMAIN index

\* C17: once Run is past loading, every markdown file under every root is
\* loaded; once it is past the construction of the index, the index holds
\* every one of them; and no finding exists before that.
C17_LoadedBeforeChecks ==
  /\ (\/ pc \in { "buildIndex", "checkFrontmatter", "checkTags", "checkLinks", "newLog", "done" }
      \/ results # << >>)
       => AllLoaded
  /\ (\/ pc \in { "checkFrontmatter", "checkTags", "checkLinks", "newLog", "done" }
      \/ results # << >>)
       => IndexFull

\* Run at its link checks over two roots, with a document of the second
\* root alone loaded and indexed
C17_Witness ==
  /\ pc = "checkLinks"
  /\ Len(roots) = 2
  /\ \E p \in Scanned :
       /\ p \notin Under(fs, roots[1])
       /\ p \in Under(fs, roots[2])
       /\ \E k \in 1..Len(files) : files[k].Path = p
       /\ ToLower(Stem(p)) \in DOMAIN index

\* The roots in the order of the permutation o of their positions
Permuted(o) == [ k \in 1..Len(roots) |-> roots[o[k]] ]

\* C18: once Run is past loading, the documents are in ascending order of
\* their paths, and they are the documents, in the order, that loading with
\* the roots in any other order gives.
C18_SortedByPath ==
  pc \in { "buildIndex", "checkFrontmatter", "checkTags", "checkLinks", "newLog", "done" } =>
    /\ \A a, b \in 1..Len(files) : a < b => ~StrLess(files[b].Path, files[a].Path)
    /\ \A o \in Orders(1..Len(roots)) :
         Permuted(o) # roots => collectFiles(fs, Permuted(o)).files = files

\* Documents loaded from two roots where a document of the second root comes
\* before one of the first, and from a root where the walk meets w/n/a.md
\* before w/n.md
C18_Witness ==
  /\ pc = "buildIndex"
  /\ \E a, b \in 1..Len(files) :
       /\ a < b
       /\ \/ /\ Len(roots) = 2
             /\ files[a].Path \in Under(fs, roots[2]) \ Under(fs, roots[1])
             /\ files[b].Path \in Under(fs, roots[1]) \ Under(fs, roots[2])
          \/ /\ Len(roots) = 1
             /\ files[a].Path = PathSibling
             /\ files[b].Path = PathLinker

\* C19: a returned log has the version 2.1.0 and exactly one run, whose
\* tool driver is named lintkit-wikifmt.
C19_OneRun ==
  Returned =>
    /\ log.Version = "2.1.0"
    /\ Len(log.Runs) = 1
    /\ log.Runs[1].Tool = "lintkit-wikifmt"

\* A returned log for two roots, several documents and several findings
C19_Witness ==
  /\ Returned
  /\ Len(roots) = 2
  /\ Len(files) >= 3
  /\ Len(log.Runs[1].Results) >= 3

\* C20: Run over no roots does not fail, loads no document and collects no
\* finding, and returns no error and a log whose one run has no findings.
C20_NoRoots ==
  roots = << >> =>
    /\ ~Failed
    /\ files = << >>
    /\ results = << >>
    /\ Returned => (err = nil /\ Len(log.Runs) = 1 /\ log.Runs[1].Results = << >>)

\* A Run over no roots, in a directory that holds documents, has returned
C20_Witness ==
  /\ roots = << >>
  /\ Returned
  /\ log # NilLog
  /\ PathA \in DOMAIN fs

\* "../x/guide.md"
TgtDecoyMd ==
  << ".", ".", "/", "x", "/", "g", "u", "i", "d", "e", ".", "m", "d" >>

\* "../docs/GUIDE.md"
TgtGuideUpper ==
  << ".", ".", "/", "d", "o", "c", "s", "/", "G", "U", "I", "D", "E", ".",
     "m", "d" >>

\* "a.md"
TgtSelfMd ==
  << "a", ".", "m", "d" >>

\* "/a.md"
TgtRootedMd ==
  << "/", "a", ".", "m", "d" >>

\* "nope.md"
TgtNopeMd ==
  << "n", "o", "p", "e", ".", "m", "d" >>

\* "../docs/"
TgtDocsDir ==
  << ".", ".", "/", "d", "o", "c", "s", "/" >>

\* "../docs/guide.txt"
TgtGuideTxt ==
  << ".", ".", "/", "d", "o", "c", "s", "/", "g", "u", "i", "d", "e", ".",
     "t", "x", "t" >>

\* "SOME--PAGE"
TgtDashes ==
  << "S", "O", "M", "E", "-", "-", "P", "A", "G", "E" >>

\* "some  page"
TgtSpaces ==
  << "s", "o", "m", "e", " ", " ", "p", "a", "g", "e" >>

\* " Some_Page "
TgtPadded ==
  << " ", "S", "o", "m", "e", "_", "P", "a", "g", "e", " " >>

\* "author"
KeyAuthor ==
  << "a", "u", "t", "h", "o", "r" >>

\* The frontmatter block of f was found
Found(f) == f.FrontmatterErr # errMissingFrontmatter

\* Run is past the construction of the index
\* collectFiles has returned the documents and no later phase has run
JustLoaded == pc = "buildIndex"

PastIndex == pc \in { "checkFrontmatter", "checkTags", "checkLinks", "newLog", "done" }

\* A key line of the block: not blank, no list entry, with a colon; its key
\* and its value
IsKey(line) ==
  /\ TrimSpace(line) # << >>
  /\ ~HasPrefix(TrimSpace(line), << "-" >>)
  /\ Len(SplitN2(line, ":")) = 2
KeyOf(line) == TrimSpace(SplitN2(line, ":")[1])
ValueOf(line) == TrimSpace(SplitN2(line, ":")[2])

\* A list item line of the block
IsItem(line) == HasPrefix(line, ListPrefix)

\* C22: the line recorded for the tags of a document, and with it the line
\* of each of its tag occurrences, is the line of the tags: key line, also
\* when list items follow.
C22_TagsLineIsKeyLine ==
  \A k \in 1..Len(files) :
    LET f == files[k]
        lines == BlockLines(f)
    IN  (Found(f) /\ f.Frontmatter.Tags.IsSet) =>
          \A n \in 1..Len(lines) :
            (IsKey(lines[n]) /\ KeyOf(lines[n]) = KeyTags) =>
              /\ f.Frontmatter.Tags.Line = n + 1
              /\ \A t \in 1..Len(f.Tags) : f.Tags[t].Line = n + 1

\* C23: every link of a document with a frontmatter block is on a line after
\* the block, and no wiki-link-broken finding cites a line of the block.
C23_LinksFromBodyOnly ==
  \A k \in 1..Len(files) :
    LET f == files[k]
        last == Len(BlockLines(f)) + 2
    IN  Found(f) =>
          /\ \A l \in 1..Len(f.Links) : f.Links[l].Line > last
          /\ \A r \in 1..Len(results) :
               (results[r].RuleID = "wiki-link-broken" /\ results[r].URI = f.Path)
                 => results[r].StartLine > last

\* The two keys of a document
LowerKey(f) == ToLower(Stem(f.Path))
SlugKey(f) == slugify(Stem(f.Path))

\* The original C24: both keys of every loaded document are keys of the
\* index and map to that document's path.
C24_BothKeysOwnPath ==
  PastIndex =>
    \A k \in 1..Len(files) :
      /\ LowerKey(files[k]) \in DOMAIN index
      /\ SlugKey(files[k]) \in DOMAIN index
      /\ index[LowerKey(files[k])] = files[k].Path
      /\ index[SlugKey(files[k])] = files[k].Path

\* The positions of the loaded documents that have key as one of their keys
Holders(key) ==
  { k \in 1..Len(files) : key \in { LowerKey(files[k]), SlugKey(files[k]) } }

\* C24 as amended: the keys of the index are the two keys of every loaded
\* document, and each key maps to the path of the last document in load
\* order that has it, so to the document itself when no later one shares
\* the key.
C24_KeysOfLastHolder ==
  PastIndex =>
    /\ \A k \in 1..Len(files) :
         /\ LowerKey(files[k]) \in DOMAIN index
         /\ SlugKey(files[k]) \in DOMAIN index
    /\ \A key \in DOMAIN index :
         /\ Holders(key) # {}
         /\ index[key] = files[Max(Holders(key))].Path

\* An index over two documents with different paths and one stem, whose
\* keys map to the later document
C24_Witness ==
  /\ PastIndex
  /\ \E j, k \in 1..Len(files) :
       /\ j < k
       /\ files[j].Path # files[k].Path
       /\ LowerKey(files[j]) = LowerKey(files[k])
       /\ index[LowerKey(files[j])] = files[k].Path
       /\ index[SlugKey(files[j])] = files[k].Path

\* For each block line, its key when it is a key line
RECURSIVE KeyTable(_)
KeyTable(lines) ==
  IF lines = << >> THEN << >>
  ELSE LET n == Len(lines)
       IN  Append(KeyTable(SubSeq(lines, 1, n - 1)),
                  IF IsKey(lines[n]) THEN << KeyOf(lines[n]) >> ELSE << >>)

\* The pairs of block lines that are key lines of one key
DupPairs(lines) ==
  LET keys == KeyTable(lines)
  IN  { d \in (1..Len(lines)) \X (1..Len(lines)) :
          /\ d[1] < d[2]
          /\ keys[d[1]] # << >>
          /\ keys[d[1]] = keys[d[2]] }

\* The finding for the parse error e of the document at path p
YamlFinding(p, e) ==
  newResult("wiki-frontmatter-yaml", Msg("invalid frontmatter YAML: %s", << >>, << >>, e),
            p, 1)

\* C25: in a block where a key is given a second time, parsing stops there
\* (unless it stopped at an earlier line for another error) with the
\* duplicate-key error that has the key, the file line of the second
\* occurrence and the file line of the first, each the position in the block
\* plus 1 for the opening line; a duplicate-key error is never raised
\* otherwise; and the document has exactly one wiki-frontmatter-yaml
\* finding, which carries the error.  (The documents are looked at when
\* they have just been loaded and when the report is returned.)
C25_DuplicateKey ==
  (JustLoaded \/ Returned) =>
  \A k \in 1..Len(files) :
    LET f == files[k]
        lines == BlockLines(f)
        dups == DupPairs(lines)
    IN  Found(f) =>
          /\ dups # {} =>
               LET second == Min({ d[2] : d \in dups })
                   firstAt == Min({ d[1] : d \in { e \in dups : e[2] = second } })
               IN  /\ \/ f.FrontmatterErr
                           = Errorf("duplicate key", second + 1, KeyOf(lines[second]),
                                    firstAt + 1)
                      \/ /\ f.FrontmatterErr # nil
                         /\ f.FrontmatterErr.kind # "duplicate key"
                         /\ f.FrontmatterErr.line < second + 1
                   /\ Returned =>
                        /\ RuleCount("wiki-frontmatter-yaml", f.Path) = Instances(f.Path)
                        /\ Count(Report, YamlFinding(f.Path, f.FrontmatterErr))
                             = Instances(f.Path)
          /\ f.FrontmatterErr.kind = "duplicate key" =>
               << f.FrontmatterErr.prev - 1, f.FrontmatterErr.line - 1 >> \in dups

\* A returned report of a document whose block has author: on its lines 2
\* and 4, with the one finding for duplicate key author on line 4,
\* previously on line 2
C25_Witness ==
  /\ Returned
  /\ \E k \in 1..Len(files) :
       /\ files[k].FrontmatterErr = Errorf("duplicate key", 4, KeyAuthor, 2)
       /\ files[k].Lines[2] = LnAuthor
       /\ files[k].Lines[4] = LnAuthor
       /\ Count(Report, YamlFinding(files[k].Path, files[k].FrontmatterErr)) = 1
       /\ RuleCount("wiki-frontmatter-yaml", files[k].Path) = 1

\* The tag values of the first upto lines of a block, in line order: the
\* value on a tags: line and the text of each list item
RECURSIVE TextTags(_, _)
TextTags(lines, upto) ==
  IF upto <= 0 THEN << >>
  ELSE TextTags(lines, upto - 1)
       \o (IF IsItem(lines[upto])
           THEN << TrimSpace(TrimPrefix(lines[upto], ListPrefix)) >>
           ELSE IF IsKey(lines[upto]) /\ KeyOf(lines[upto]) = KeyTags
                   /\ ValueOf(lines[upto]) # << >>
           THEN << ValueOf(lines[upto]) >>
           ELSE << >>)

\* The block lines that were parsed without error
ParsedLines(f) ==
  IF f.FrontmatterErr = nil THEN Len(BlockLines(f)) ELSE f.FrontmatterErr.line - 2

\* The list item on block line n comes after a key line, the last of which
\* is a tags: line
UnderTags(keys, n) ==
  LET before == { m \in 1..(n - 1) : keys[m] # << >> }
  IN  before # {} /\ keys[Max(before)] = << KeyTags >>

\* C26: a list item line that the parser reaches is accepted when the last
\* key line before it is a tags: line, and is the unexpected-list-item error
\* of its line, where parsing stops, after any other key or before any key;
\* the tags of a block that parsed are the value of its tags: line and its
\* list items, one tag each, in line order.  (The documents are looked at
\* when they have just been loaded.)
C26_ListItems ==
  JustLoaded =>
  \A k \in 1..Len(files) :
    LET f == files[k]
        lines == BlockLines(f)
        keys == KeyTable(lines)
        parsed == ParsedLines(f)
    IN  Found(f) =>
          /\ \A n \in 1..Len(lines) :
               (IsItem(lines[n]) /\ n <= parsed + 1) =>
                 IF UnderTags(keys, n)
                 THEN n <= parsed
                 ELSE f.FrontmatterErr = Errorf("unexpected list item", n + 1, NoKey, 0)
          /\ f.FrontmatterErr = nil =>
               f.Frontmatter.Tags.Value = TextTags(lines, Len(lines))

\* Documents loaded where one has a list item after title: (the error of its
\* line 4) and one has the items api and infra under tags:, in that order
C26_Witness ==
  \E j, k \in 1..Len(files) :
    /\ files[j].Lines[2] = LnTagsKey
    /\ files[j].Lines[3] = LnTitle
    /\ files[j].Lines[4] = LnItemApi
    /\ files[j].FrontmatterErr = Errorf("unexpected list item", 4, NoKey, 0)
    /\ files[k].FrontmatterErr = nil
    /\ files[k].Frontmatter.Tags.Value = << << "a", "p", "i" >>, << "i", "n", "f", "r", "a" >> >>

\* resolveMarkdownLink without its last step, the scan of the index values
resolveMarkdownLinkByKeys(currentPath, target, idx) ==
  IF target = << >> THEN FALSE
  ELSE LET abs == Clean(Join(Dir(currentPath), TrimPrefix(target, << Slash >>)))
       IN  \/ ToLower(TrimSuffix(Base(abs), Ext(abs))) \in DOMAIN idx
           \/ slugify(TrimSuffix(Base(abs), Ext(abs))) \in DOMAIN idx

\* The scan of the index values finds the file the link resolves to
FallbackMatches(currentPath, target, idx) ==
  LET abs == Clean(Join(Dir(currentPath), TrimPrefix(target, << Slash >>)))
  IN  /\ HasSuffix(abs, MdSuffix)
      /\ \E key \in DOMAIN idx : sameFile(abs, idx[key])

\* The markdown link targets tried: those of the loaded documents and more
MdTargets ==
  { TgtGuideMd, TgtDecoyMd, TgtGuideUpper, TgtSelfMd, TgtRootedMd, TgtNopeMd,
    TgtDocsDir, TgtGuideTxt, << >> }
    \cup UNION { { files[k].Links[l].Target : l \in 1..Len(files[k].Links) } :
                 k \in 1..Len(files) }

\* Run is at its link checks, with the index it resolves every link against
AtLinks == pc = "checkLinks"

\* C27: for the index of the loaded documents, every loaded document with
\* links as the linking document and every target, resolveMarkdownLink
\* returns what it returns without the scan of the index values; where the
\* scan matches, the key lookup has resolved the link.
C27_FallbackRedundant ==
  AtLinks =>
    \A k \in { j \in 1..Len(files) : files[j].Links # << >> } : \A t \in MdTargets :
      /\ resolveMarkdownLink(files[k].Path, t, index)
           = resolveMarkdownLinkByKeys(files[k].Path, t, index)
      /\ FallbackMatches(files[k].Path, t, index)
           => resolveMarkdownLinkByKeys(files[k].Path, t, index)

\* An index and a document with the link ../docs/guide.md to a loaded
\* document in another directory, which the scan of the values matches
C27_Witness ==
  /\ AtLinks
  /\ \E k \in 1..Len(files) : \E l \in 1..Len(files[k].Links) :
       /\ files[k].Links[l].Target = TgtGuideMd
       /\ Dir(files[k].Path) # Dir(PathGuide)
       /\ FallbackMatches(files[k].Path, TgtGuideMd, index)
       /\ resolveMarkdownLink(files[k].Path, TgtGuideMd, index)

\* C28: no tag group has both a wiki-tag-orphan finding and a
\* wiki-tag-case-variant finding, in the findings collected and in the
\* report, and so no occurrence has both.
C28_OrphanOrVariant ==
  /\ \A norm \in Norms :
       ~(/\ \E r \in 1..Len(results) :
              results[r].RuleID = "wiki-tag-orphan" /\ ToLower(results[r].Message.a) = norm
         /\ \E r \in 1..Len(results) :
              results[r].RuleID = "wiki-tag-case-variant"
                /\ ToLower(results[r].Message.a) = norm)
  /\ Returned =>
       \A o \in TagPositions :
         Count(Report, OrphanFinding(o)) = 0 \/ Count(Report, VariantFinding(o)) = 0

\* A returned report with an orphan finding for one group and case-variant
\* findings for another, whose raw texts API and api are one occurrence each
C28_Witness ==
  /\ Returned
  /\ \E m, n \in Norms :
       /\ m # n
       /\ OfGroup("wiki-tag-orphan", m) # {}
       /\ OfGroup("wiki-tag-case-variant", m) = {}
       /\ Cardinality(OfGroup("wiki-tag-case-variant", n)) = 2
       /\ OfGroup("wiki-tag-orphan", n) = {}

\* The wikilink targets tried: those of the loaded documents and more
WikiTargetsTried ==
  WikiTargets \cup { TgtDashes, TgtSpaces, TgtPadded, StemGuide }
    \cup UNION { { files[k].Links[l].Target : l \in 1..Len(files[k].Links) } :
                 k \in 1..Len(files) }

\* Some loaded document has a link
Linking == \E k \in 1..Len(files) : files[k].Links # << >>

\* C29: for the index of loaded documents that have links and every target,
\* resolveWikiLink holds exactly when the trimmed target is not empty and
\* its slug is the slug of the stem of a loaded document; so the lookup of
\* the lower-cased target resolves nothing the slug lookup left, and targets
\* with one slug resolve alike.
C29_SlugEquality ==
  (AtLinks /\ Linking) =>
    LET tried == WikiTargetsTried
        resolved == [ t \in tried |-> resolveWikiLink(t, index) ]
        slug == [ t \in tried |-> slugify(t) ]
        stems == { slugify(Stem(files[k].Path)) : k \in 1..Len(files) }
    IN  /\ \A t \in tried :
             /\ resolved[t] = (TrimSpace(t) # << >> /\ slug[t] \in stems)
             /\ (TrimSpace(t) # << >> /\ ToLower(TrimSpace(t)) \in DOMAIN index)
                  => slug[t] \in DOMAIN index
        /\ \A t, u \in tried :
             (slug[t] = slug[u] /\ TrimSpace(t) # << >> /\ TrimSpace(u) # << >>)
               => resolved[t] = resolved[u]

\* An index of a document Some Page.md, with no some-page.md, that resolves
\* some_page, SOME--PAGE and Some Page and does not resolve nope
C29_Witness ==
  /\ AtLinks
  /\ PathSpaced \in Scanned
  /\ PathSlug \notin Scanned
  /\ resolveWikiLink(TgtUnderscore, index)
  /\ resolveWikiLink(TgtDashes, index)
  /\ resolveWikiLink(TgtSomePage, index)
  /\ ~resolveWikiLink(TgtNope, index)

\* The tags the text of the block of f gives on the lines parsed without
\* error
TagsOfText(f) == IF Found(f) THEN TextTags(BlockLines(f), ParsedLines(f)) ELSE << >>

\* The tags of the texts of the loaded documents, and the tag values of
\* their occurrences
RECURSIVE TextTagsUpTo(_)
TextTagsUpTo(n) ==
  IF n = 0 THEN << >> ELSE Append(TextTagsUpTo(n - 1), TagsOfText(files[n]))
TextTagsOfFiles == TextTagsUpTo(Len(files))
LoadedTags ==
  [ k \in 1..Len(files) |-> [ t \in 1..Len(files[k].Tags) |-> files[k].Tags[t].Value ] ]

\* How many tags of the texts lower-case to norm
TextGroupSize(texts, norm) ==
  Cardinality({ kt \in UNION { { << k, t >> : t \in 1..Len(texts[k]) } :
                                k \in 1..Len(files) } :
                  ToLower(texts[kt[1]][kt[2]]) = norm })

\* C30: the tag occurrences of a document are the tags its block gives on
\* the lines before the line where parsing stopped (all its lines when it
\* did not stop), and none for a document with missing frontmatter; in the
\* report a group has an orphan finding exactly when these occurrences of
\* all the documents, those whose parsing stopped included, number one.
\* (The occurrences are looked at when the documents have just been loaded.)
C30_TagsBeforeError ==
  LET texts == TextTagsOfFiles
  IN  /\ JustLoaded =>
           /\ LoadedTags = texts
           /\ \A k \in 1..Len(files) : ~Found(files[k]) => files[k].Tags = << >>
      /\ Returned =>
           \A k \in 1..Len(files) : \A t \in 1..Len(texts[k]) :
             LET norm == ToLower(texts[k][t])
             IN  (OfGroup("wiki-tag-orphan", norm) # {}) = (TextGroupSize(texts, norm) = 1)

\* A returned report of a document whose parsing stopped after tags: API and
\* of a document with the one tag api: no orphan finding for api, and a
\* case-variant finding for each
C30_Witness ==
  /\ Returned
  /\ \E j, k \in 1..Len(files) :
       /\ files[k].FrontmatterErr \notin { nil, errMissingFrontmatter }
       /\ TagsOfText(files[k]) = << << "A", "P", "I" >> >>
       /\ files[j].FrontmatterErr = nil
       /\ TagsOfText(files[j]) = << << "a", "p", "i" >> >>
       /\ OfGroup("wiki-tag-orphan", << "a", "p", "i" >>) = {}
       /\ Cardinality(OfGroup("wiki-tag-case-variant", << "a", "p", "i" >>)) = 2

\* The tables of the baseline that the database does not have
MissingTables == DOMAIN baseline \ DOMAIN database.tables

\* C21: in the results CheckDatabase returns, no finding is for a table that
\* is absent from the baseline; and every baseline table that the database
\* does not have has the drift -100% and, when the threshold is below 100,
\* a db-row-drift finding with current count 0 and that drift, whatever its
\* baseline count.
C21_MissingTableIsFullDrop ==
  dbpc = "returned" =>
    /\ \A r \in 1..Len(dbResults) : dbResults[r].Message.table \in DOMAIN baseline
    /\ \A t \in MissingTables :
         /\ percentageDiff(baseline[t], 0).num = (0 - 100) * percentageDiff(baseline[t], 0).den
         /\ threshold < 100 =>
              \E r \in 1..Len(dbResults) :
                /\ dbResults[r].RuleID = "db-row-drift"
                /\ dbResults[r].Message.table = t
                /\ dbResults[r].Message.current = 0
                /\ dbResults[r].Message.diff.num = (0 - 100) * dbResults[r].Message.diff.den

====
